---- MODULE Spec2Model ----
(***************************************************************************)
(* KouranBot: the outage detection and notification pipeline               *)
(* (bot/monitor.py), the storage it runs on (bot/database.py), the         *)
(* scheduler that starts it (bot/main.py) and the command handlers that    *)
(* change subscriptions (bot/handlers.py).                                 *)
(*                                                                         *)
(* Everything runs on one asyncio event loop, so the code between two      *)
(* awaits is one atomic step.  A pipeline run awaits in three places: the  *)
(* HTTP GET of the feed, bot.send_message and asyncio.sleep.  Each action  *)
(* below is the code from one await to the next.                           *)
(***************************************************************************)
EXTENDS Integers, Sequences, FiniteSets, TLC

(***************************************************************************)
(* Bounds of the model.                                                    *)
(***************************************************************************)
MaxRuns == 2        \* pipeline invocations started in one behaviour
MaxFeed == 1        \* records in one feed document (today + future)
MaxCommands == 1    \* storage-writing commands handled in one behaviour
MaxFaults == 1      \* storage faults during one detection batch
MaxDetections == 2  \* detection steps in one behaviour of SpecDetect
MaxFingerprints == 2 \* rows fingerprinted in one behaviour of SpecFingerprint
MaxRecords == 2     \* outages in one argument of categorize_outages
MaxSnapshot == 2    \* records in the document of SpecBatch (today + future)

(***************************************************************************)
(* The data the pipeline works on.                                         *)
(***************************************************************************)
Users == {"u1", "u2"}                \* telegram ids
OutageIds == {"o1", "o2"}            \* ids carried by the feed
NoId == ""                           \* a feed record without "id"
NoUser == "-"                        \* no delivery in flight
NoJob == "-"                         \* no job
Rested == {"rested"}
Malformed == "bad"                   \* "from"/"to" missing or not ISO-8601


\* The localities table: UniqueConstraint(name, district_id) lets one name
\* occur in several districts.
LocalityIds == {1, 2}
Locality == [l \in LocalityIds |->
               IF l = 1 THEN [name |-> "A", district |-> "d1"]
                        ELSE [name |-> "A", district |-> "d2"]]

\* The scheduler's two jobs (main.py).
Jobs == {"initial_check", "outage_monitor"}

VARIABLES
    \* storage (bot/database.py)
    outages,            \* outages table: id -> row or NoRow
    notifications_sent, \* notifications_sent table: set of <<user_id, outage_id>>
    users,              \* users table: telegram ids that have a row
    is_active,          \* users.is_active
    subscriptions,      \* subscriptions table: set of <<user_id, locality_id>>
    \* scheduler (bot/main.py)
    jobstore,           \* jobs the scheduler still holds
    runs,               \* number of pipeline invocations started so far
    commands,           \* number of storage-writing commands handled so far
    \* one pipeline invocation per job (bot/monitor.py)
    pc,                 \* "idle", "fetch", "send", "sleep"
    new_outage_ids,     \* ids still to be dispatched after the current one
    outage,             \* id of the outage being dispatched, or NoId
    users_with_lang,    \* recipients still to be visited for that outage
    user_id,            \* recipient of the delivery in flight, or NoUser
    \* history
    delivered,          \* <<user, outage>> -> number of successful deliveries
    history,            \* whether the two variables below are kept (SpecHistory)
    failed,             \* pairs whose latest delivery failed transiently
    owed,               \* job -> pairs in failed when the job's run started
                        \*   (no other run in progress), their outage in the
                        \*   document it classified, no delivery to them
                        \*   started and no storage fault met since
    escaped,            \* an exception propagated out of monitor_job
    attempted,          \* job -> pairs a delivery was started to in the run in
                        \*   progress (kept in SpecHistory)
    no_data,            \* the job whose run the latest step ended on "No data
                        \*   received", or NoJob
    resting,            \* Rested when an asyncio.sleep(0.05) has begun and ended
                        \*   since the latest bot.send_message call, else the jobs
                        \*   whose sleep has begun since (kept in SpecHistory)
    undispatched,       \* pairs <<user, outage>>: the outage was stored as new
                        \*   while the user was active and subscribed to its
                        \*   locality, and no delivery to the user for it has
                        \*   been started since (kept in SpecHistory)
    \* detection on its own (SpecDetect)
    clock,              \* datetime.utcnow(), advanced by the detection steps of
                        \*   SpecDetect only: Spec does not observe time
    last_data,          \* the document of the latest detection step
    last_clean,         \* the latest detection step met no storage fault
    last_new,           \* the ids the latest detection step returned
    again,              \* the latest detection step saw the document of the
                        \*   step before it
    clean_before,       \* the step before the latest met no storage fault
    \* generate_outage_id on its own (SpecFingerprint)
    row,                \* the dict passed to generate_outage_id
    row_id,             \* what it returned, or NotComputed
    row_before,         \* the dict of the call before
    id_before,          \* what that call returned
    fingerprints,       \* number of calls so far
    \* parse_french_date on its own (SpecDates)
    date_str,           \* the string passed to parse_french_date
    parsed,             \* what it returned, or NotParsed
    \* categorize_outages on its own (SpecCategorize)
    now_local,          \* datetime.now(MAURITIUS_TZ) of the call
    outages_by_district, \* its argument
    categorized,        \* what it returned, or NotCategorized
    \* one call of _process_outages on any table (SpecBatch)
    batch_faults,       \* the storage faults the call meets
    outages_before,     \* the outages table when the call started
    batch,              \* "ready", "returned" or "raised"
    \* two pipeline instances on one storage (SpecInstances)
    at,                 \* job -> index of the record its detection examines
    existing,           \* job -> whether its existence query found a row
    \* the HTML variant of the feed, function by function (SpecHtml)
    html,               \* the page or the district fragment passed in
    raw_outages,        \* the rows passed to the loop of fetch_and_parse_outages,
                        \* or the list passed to remove_duplicates
    returned,           \* what the function returned; <<>> before the call
    \* the subscription functions and the handlers that call them
    subscription_rows,  \* subscriptions table: <<user_id, locality_id>> -> number
                        \*   of rows (Subscription.id is the key of a row)
    user_subscription_state, \* handlers.user_subscription_state: the dict
    called              \* the latest call or callback and what came of it

storage == <<outages, notifications_sent, users, is_active, subscriptions>>
sched == <<jobstore, runs>>
local == <<pc, new_outage_ids, outage, users_with_lang, user_id>>
hist == <<delivered, history, failed, owed, escaped, attempted, no_data, resting,
          undispatched>>
detect == <<clock, last_data, last_clean, last_new, again, clean_before>>
fingerprint == <<row, row_id, row_before, id_before, fingerprints>>
units == <<date_str, parsed, now_local, outages_by_district, categorized,
           batch_faults, outages_before, batch>>
session == <<subscription_rows, user_subscription_state, called>>
apart == <<at, existing, html, raw_outages, returned, session>>
aside == <<detect, fingerprint, units, apart>>
vars == <<storage, sched, commands, local, hist, aside>>

Pairs == Users \X OutageIds
NoRow == [id |-> NoId]

(***************************************************************************)
(* The feed: {"today": [...], "future": [...]}, each item carrying id,     *)
(* locality, district, streets, date, from, to.  Variant "v2" of an id is  *)
(* the same id with every other field edited upstream; "bad" has no usable *)
(* from/to.                                                                *)
(***************************************************************************)
Variants == {"v1", "v2", "bad"}

FeedRecord(i, v) ==
    [id       |-> i,
     locality |-> IF v = "v2" THEN "B" ELSE "A",
     district |-> IF (i = "o2") = (v = "v2") THEN "d1" ELSE "d2",
     streets  |-> IF v = "v2" THEN "s2" ELSE "s1",
     date     |-> IF v = "v2" THEN "D2" ELSE "D1",
     from     |-> CASE v = "v1" -> "t1" [] v = "v2" -> "t2" [] OTHER -> Malformed,
     to       |-> CASE v = "v1" -> "t2" [] v = "v2" -> "t3" [] OTHER -> Malformed]

FeedRecords ==
    {FeedRecord("o1", v) : v \in Variants} \cup
    {FeedRecord("o2", "v1"), FeedRecord(NoId, "v1")}

SeqsUpTo(S, n) == UNION {[1..k -> S] : k \in 0..n}

FeedsOver(records) ==
    {d \in {[today |-> t, future |-> f] : t \in SeqsUpTo(records, MaxFeed),
                                          f \in SeqsUpTo(records, MaxFeed)} :
        Len(d.today) + Len(d.future) <= MaxFeed}

\* Documents offered to detection on its own (SpecDetect).
DetectFeeds == FeedsOver(FeedRecords)

\* Documents offered to a pipeline run: the two outages as first published,
\* in any order and multiplicity, dealt alternately to the two lists.
PipelineRecords == {FeedRecord("o1", "v1"), FeedRecord("o2", "v1")}

Feeds ==
    {d \in FeedsOver(PipelineRecords) :
        Len(d.future) <= Len(d.today) /\ Len(d.today) <= Len(d.future) + 1}

(***************************************************************************)
(* Storage faults.  Every db.query / db.commit may raise; detection takes  *)
(* one outcome per feed record:                                           *)
(*   "ok"     the record's storage operations succeed                      *)
(*   "query"  the existence query raises (as does any other statement of   *)
(*            the loop body outside the inner try, such as .get on a feed  *)
(*            item that is not an object)                                  *)
(*   "commit" db.commit() raises and the db.rollback() after it succeeds   *)
(*   "conn"   the connection is gone: the query and db.rollback() raise    *)
(***************************************************************************)
FaultKinds == {"ok", "query", "commit", "conn"}

(***************************************************************************)
(* OutageMonitor._process_outages.                                         *)
(***************************************************************************)
\* A detection that reads the "today" list only.
AllOutagesToday(data) == data.today

\* data.get("today", []) + data.get("future", [])
AllOutages(data) == data.today \o data.future

\* Outage(id=..., locality=..., ...) with first_seen and last_checked
\* defaulting to utcnow()
NewOutage(rec, now) ==
    [id               |-> rec.id,
     locality         |-> rec.locality,
     district         |-> rec.district,
     streets          |-> rec.streets,
     date_description |-> rec.date,
     from_time        |-> rec.from,
     to_time          |-> rec.to,
     first_seen       |-> now,
     last_checked     |-> now]

\* db.query(Outage).filter(Outage.id == outage_id).first()
ExistingNever(outs, id) == FALSE
Existing(outs, id) == outs[id] # NoRow

\* existing.last_checked = datetime.utcnow()
TouchOutageOverwrite(old, rec, now) ==
    [NewOutage(rec, now) EXCEPT !.first_seen = old.first_seen]
TouchOutageDelete(old, rec, now) == NoRow
TouchOutage(old, rec, now) == [old EXCEPT !.last_checked = now]

\* datetime.fromisoformat(outage_data["from"]...) raises on a missing or
\* malformed value
ConstructRaises(rec) == rec.from = Malformed \/ rec.to = Malformed

\* The loop body from record i on.  outs is the outages table, new the
\* list new_outage_ids.  Result: the table, the list, and whether an
\* exception left _process_outages (raised) or the outer handler ended the
\* loop early (aborted).
RECURSIVE ProcessFrom(_, _, _, _, _, _)
ProcessFrom(all, faults, i, outs, new, now) ==
    IF i > Len(all)
    THEN [outages |-> outs, new |-> new, aborted |-> FALSE, raised |-> FALSE]
    ELSE
      LET rec == all[i]
          abort == [outages |-> outs, new |-> new, aborted |-> TRUE,
                    raised |-> FALSE]
          raise == [outages |-> outs, new |-> new, aborted |-> TRUE,
                    raised |-> TRUE]
          skip  == ProcessFrom(all, faults, i + 1, outs, new, now)
      IN
      IF rec.id = NoId THEN skip                      \* "Outage missing ID"
      ELSE IF faults[i] = "query" THEN abort            \* outer except
      ELSE IF faults[i] = "conn" THEN raise             \* outer except, rollback raises
      ELSE IF ~Existing(outs, rec.id)
      THEN \* new outage: create it
           IF ConstructRaises(rec) THEN skip            \* inner except, continue
           ELSE IF faults[i] = "commit" THEN skip       \* inner except, continue
           ELSE ProcessFrom(all, faults, i + 1,
                            [outs EXCEPT ![rec.id] = NewOutage(rec, now)],
                            Append(new, rec.id), now)
      ELSE \* known outage: update last_checked
           IF faults[i] = "commit" THEN abort           \* outer except
           ELSE ProcessFrom(all, faults, i + 1,
                            [outs EXCEPT ![rec.id] = TouchOutage(outs[rec.id], rec, now)],
                            new, now)

\* A detection that leaves the loop at the first record without id.
ProcessOutagesBreak(data, faults, outs, now) ==
    LET all == AllOutages(data)
        stop == CHOOSE i \in 1..(Len(all) + 1) :
                    /\ i <= Len(all) => all[i].id = NoId
                    /\ \A k \in 1..(i - 1) : all[k].id # NoId
    IN  ProcessFrom(SubSeq(all, 1, stop - 1), faults, 1, outs, <<>>, now)

ProcessOutagesAll(data, faults, outs, now) ==
    [ProcessFrom(AllOutages(data), faults, 1, outs, <<>>, now)
        EXCEPT !.new = [i \in 1..Len(AllOutages(data)) |-> AllOutages(data)[i].id]]
ProcessOutages(data, faults, outs, now) ==
    ProcessFrom(AllOutages(data), faults, 1, outs, <<>>, now)

\* One fault outcome per record, at most MaxFaults of them a failure; a
\* record without id touches no storage, and neither does a record after
\* the one whose query raised.
FaultsFor(data) ==
    LET all == AllOutages(data)
    IN  {f \in [1..Len(all) -> FaultKinds] :
            /\ \A i \in 1..Len(all) : all[i].id = NoId => f[i] = "ok"
            /\ \A i, k \in 1..Len(all) :
                  (i < k /\ f[i] \in {"query", "conn"}) => f[k] = "ok"
            /\ Cardinality({i \in 1..Len(all) : f[i] # "ok"}) <= MaxFaults}

NoFault(faults) == \A i \in DOMAIN faults : faults[i] = "ok"

(***************************************************************************)
(* get_users_with_language_for_locality: users JOIN subscriptions JOIN     *)
(* localities WHERE localities.name = :name AND users.is_active.  One row  *)
(* per matching subscription, in an order the query does not fix.  The     *)
(* language column plays no part in what follows and is left out.          *)
(***************************************************************************)
MatchingSubscriptions(name, subs, act) ==
    {s \in subs : Locality[s[2]].name = name /\ act[s[1]]}

Orderings(S) ==
    {f \in [1..Cardinality(S) -> S] : \A i, k \in 1..Cardinality(S) : f[i] = f[k] => i = k}

UsersForLocality(name, subs, act) ==
    {[i \in 1..Len(f) |-> f[i][1]] : f \in Orderings(MatchingSubscriptions(name, subs, act))}

(***************************************************************************)
(* Exceptions.  Every raise site lies inside a stack of try statements;    *)
(* Catches gives the classes a frame's except clauses name, and a handler  *)
(* that calls db.rollback() raises again when the connection is gone.      *)
(***************************************************************************)
ExceptionClasses == {"HTTPError", "TelegramError", "SQLAlchemyError", "Exception"}

CatchesNamed(frame) ==
    CASE frame = "_fetch_outages"             -> {"HTTPError"}
      [] frame = "_send_notification_to_user" -> {"TelegramError"}
      [] OTHER                                -> {}
Catches(frame) ==
    CASE frame = "_fetch_outages"             -> ExceptionClasses  \* HTTPError, Exception
      [] frame = "_process_outages"           -> ExceptionClasses  \* except Exception
      [] frame = "_send_notifications"        -> ExceptionClasses  \* except Exception
      [] frame = "_send_notification_to_user" -> ExceptionClasses  \* TelegramError, Exception
      [] frame = "check_for_outages"          -> ExceptionClasses  \* except Exception
      [] frame = "monitor_job"                -> ExceptionClasses  \* except Exception

HandlerRollsBack(frame) == frame \in {"_process_outages", "_send_notifications"}

\* The frame whose handler ends the propagation of exc raised inside
\* frames[1], or "none" when it leaves the outermost frame.
RECURSIVE CaughtBy(_, _, _)
CaughtBy(frames, exc, conn) ==
    IF frames = <<>> THEN "none"
    ELSE IF exc \in Catches(Head(frames))
    THEN IF conn /\ HandlerRollsBack(Head(frames))
         THEN CaughtBy(Tail(frames), "SQLAlchemyError", conn)
         ELSE Head(frames)
    ELSE CaughtBy(Tail(frames), exc, conn)

RunFrames == <<"check_for_outages", "monitor_job">>
DispatchFrames == <<"_send_notifications">> \o RunFrames

(***************************************************************************)
(* OutageMonitor._send_notifications, from the point reached (ids still    *)
(* to come, current outage cur, recipients lst still to visit) up to the   *)
(* next await.  The outcomes: a delivery starts ("send"), the loops are    *)
(* exhausted ("done"), or a query raises ("fault").                        *)
(***************************************************************************)
Outcome(kind, ids, cur, lst, target) ==
    [kind |-> kind, ids |-> ids, cur |-> cur, lst |-> lst, target |-> target]

\* db.query(NotificationSent).filter(user_id == ..., outage_id == ...).first()
AlreadySentNever(u, o, sent) == FALSE
AlreadySent(u, o, sent) == <<u, o>> \in sent

RECURSIVE Advance(_, _, _, _, _, _, _)
Advance(ids, cur, lst, outs, sent, subs, act) ==
    IF lst # <<>>
    THEN \* for user_id, user_lang in users_with_lang
         {Outcome("fault", <<>>, NoId, <<>>, NoUser)} \cup
         IF AlreadySent(Head(lst), cur, sent)
         THEN Advance(ids, cur, Tail(lst), outs, sent, subs, act)   \* already_sent
         ELSE {Outcome("send", ids, cur, Tail(lst), Head(lst))}
    ELSE IF ids = <<>> THEN {Outcome("done", <<>>, NoId, <<>>, NoUser)}
    ELSE \* for outage_id in outage_ids
         {Outcome("fault", <<>>, NoId, <<>>, NoUser)} \cup
         IF outs[Head(ids)] = NoRow
         THEN Advance(Tail(ids), NoId, <<>>, outs, sent, subs, act)
         ELSE UNION {Advance(Tail(ids), Head(ids), l, outs, sent, subs, act) :
                        l \in UsersForLocality(outs[Head(ids)].locality, subs, act)}

(***************************************************************************)
(* generate_outage_id (bot/ceb_parser.py).  A str is a sequence of         *)
(* characters, a dict a sequence of <<key, value>> items in insertion      *)
(* order, bytes a sequence of numbers 0..255.                              *)
(***************************************************************************)
Letters == <<"a", "b", "c", "d", "e", "f", "g", "h", "i", "j", "k", "l", "m",
             "n", "o", "p", "q", "r", "s", "t", "u", "v", "w", "x", "y", "z">>

\* The UTF-8 bytes of a character; "e-acute" stands for U+00E9.
Utf8(c) ==
    IF \E i \in DOMAIN Letters : Letters[i] = c
    THEN <<96 + (CHOOSE i \in DOMAIN Letters : Letters[i] = c)>>
    ELSE IF c \in {"0", "1", "2", "3", "4", "5", "6", "7", "8", "9"}
    THEN <<48 + (CHOOSE d \in 0..9 : ToString(d) = c)>>
    ELSE CASE c = "\"" -> <<34>>
           [] c = " "  -> <<32>>
           [] c = "L"  -> <<76>>
           [] c = ","  -> <<44>>
           [] c = ":"  -> <<58>>
           [] c = "\\" -> <<92>>
           [] c = "{"  -> <<123>>
           [] c = "}"  -> <<125>>
           [] c = "e-acute" -> <<195, 169>>

\* json_str.encode('utf-8')
RECURSIVE Encode(_)
Encode(str) ==
    IF str = <<>> THEN <<>>
    ELSE IF Len(str) = 1 THEN Utf8(str[1])
    ELSE LET half == Len(str) \div 2
         IN  Encode(SubSeq(str, 1, half)) \o Encode(SubSeq(str, half + 1, Len(str)))

\* json.dumps of a str with ensure_ascii=False: the quote and the backslash
\* are escaped, a character outside ASCII is written as it is.
JsonEscape(c) ==
    CASE c = "\"" -> <<"\\", "\"">>
      [] c = "\\" -> <<"\\", "\\">>
      [] OTHER    -> <<c>>

RECURSIVE JsonString(_)
JsonString(str) ==
    IF str = <<>> THEN <<>>
    ELSE IF Len(str) = 1 THEN JsonEscape(str[1])
    ELSE LET half == Len(str) \div 2
         IN  JsonString(SubSeq(str, 1, half)) \o JsonString(SubSeq(str, half + 1, Len(str)))

Quoted(str) == <<"\"">> \o JsonString(str) \o <<"\"">>

\* The characters of a key.
KeyText(k) ==
    CASE k = "date"     -> <<"d", "a", "t", "e">>
      [] k = "locality" -> <<"l", "o", "c", "a", "l", "i", "t", "y">>
      [] k = "streets"  -> <<"s", "t", "r", "e", "e", "t", "s">>
      [] k = "district" -> <<"d", "i", "s", "t", "r", "i", "c", "t">>
      [] k = "id"       -> <<"i", "d">>
      [] k = "from"     -> <<"f", "r", "o", "m">>
      [] k = "to"       -> <<"t", "o">>

\* json.dumps(data, separators=(',', ':'), ensure_ascii=False): the items in
\* the dict's order, "," between items, ":" between key and value, no spaces.
RECURSIVE JsonItems(_)
JsonItems(items) ==
    IF items = <<>> THEN <<>>
    ELSE Quoted(KeyText(Head(items)[1])) \o <<":">> \o Quoted(Head(items)[2]) \o
         (IF Len(items) > 1 THEN <<",">> ELSE <<>>) \o JsonItems(Tail(items))

JsonDumps(data) == <<"{">> \o JsonItems(data) \o <<"}">>

(***************************************************************************)
(* hashlib.md5(...).hexdigest(): MD5 (RFC 1321).  A 32-bit word is the     *)
(* pair <<high 16 bits, low 16 bits>>.                                     *)
(***************************************************************************)
\* a & b for numbers of n bits, the high bits and the low bits apart
RECURSIVE AndBits(_, _, _)
AndBits(a, b, n) ==
    IF a = 0 \/ b = 0 THEN 0
    ELSE IF n = 1 THEN a * b
    ELSE LET low == 2^(n \div 2)
         IN  low * AndBits(a \div low, b \div low, n - (n \div 2))
             + AndBits(a % low, b % low, n \div 2)

And16(a, b) == AndBits(a, b, 16)

Or16(a, b) == a + b - And16(a, b)
Xor16(a, b) == a + b - 2 * And16(a, b)
Not16(a) == 65535 - a

WAnd(x, y) == <<And16(x[1], y[1]), And16(x[2], y[2])>>
WOr(x, y) == <<Or16(x[1], y[1]), Or16(x[2], y[2])>>
WXor(x, y) == <<Xor16(x[1], y[1]), Xor16(x[2], y[2])>>
WNot(x) == <<Not16(x[1]), Not16(x[2])>>

\* addition modulo 2^32
WAdd(x, y) ==
    LET lo == x[2] + y[2]
    IN  <<(x[1] + y[1] + (lo \div 65536)) % 65536, lo % 65536>>

\* rotation to the left by s bits, 0 < s < 32
RotL(x, s) ==
    LET y == IF s >= 16 THEN <<x[2], x[1]>> ELSE x
        r == s % 16
    IN  <<((y[1] * (2^r)) % 65536) + (y[2] \div (2^(16 - r))),
          ((y[2] * (2^r)) % 65536) + (y[1] \div (2^(16 - r)))>>

\* floor(2^32 * abs(sin(i))) for i = 1..64
Md5K == <<
      <<55146, 42104>>, <<59591, 46934>>, <<9248, 28891>>, <<49597, 52974>>,
      <<62844, 4015>>, <<18311, 50730>>, <<43056, 17939>>, <<64838, 38145>>,
      <<27008, 39128>>, <<35652, 63407>>, <<65535, 23473>>, <<35164, 55230>>,
      <<27536, 4386>>, <<64920, 29075>>, <<42617, 17294>>, <<18868, 2081>>,
      <<63006, 9570>>, <<49216, 45888>>, <<9822, 23121>>, <<59830, 51114>>,
      <<54831, 4189>>, <<580, 5203>>, <<55457, 59009>>, <<59347, 64456>>,
      <<8673, 52710>>, <<49975, 2006>>, <<62677, 3463>>, <<17754, 5357>>,
      <<43491, 59653>>, <<64751, 41976>>, <<26479, 729>>, <<36138, 19594>>,
      <<65530, 14658>>, <<34673, 63105>>, <<28061, 24866>>, <<64997, 14348>>,
      <<42174, 59972>>, <<19422, 53161>>, <<63163, 19296>>, <<48831, 48240>>,
      <<10395, 32454>>, <<60065, 10234>>, <<54511, 12421>>, <<1160, 7429>>,
      <<55764, 53305>>, <<59099, 39397>>, <<8098, 31992>>, <<50348, 22117>>,
      <<62505, 8772>>, <<17194, 65431>>, <<43924, 9127>>, <<64659, 41017>>,
      <<25947, 22979>>, <<36620, 52370>>, <<65519, 62589>>, <<34180, 24017>>,
      <<28584, 32335>>, <<65068, 59104>>, <<41729, 17172>>, <<19976, 4513>>,
      <<63315, 32386>>, <<48442, 62005>>, <<10967, 53947>>, <<60294, 54161>>>>

Md5S == <<7, 12, 17, 22, 7, 12, 17, 22, 7, 12, 17, 22, 7, 12, 17, 22,
          5,  9, 14, 20, 5,  9, 14, 20, 5,  9, 14, 20, 5,  9, 14, 20,
          4, 11, 16, 23, 4, 11, 16, 23, 4, 11, 16, 23, 4, 11, 16, 23,
          6, 10, 15, 21, 6, 10, 15, 21, 6, 10, 15, 21, 6, 10, 15, 21>>

\* 0x67452301, 0xefcdab89, 0x98badcfe, 0x10325476
Md5Init == <<<<26437, 8961>>, <<61389, 43913>>, <<39098, 56574>>, <<4146, 21622>>>>

Zeros(n) == [i \in 1..n |-> 0]

\* The message, 0x80, zeros up to 56 modulo 64, and the length in bits as
\* eight little-endian bytes (messages here are shorter than 2^21 bytes).
Md5Pad(bytes) ==
    LET n == Len(bytes)
        bits == 8 * n
    IN  bytes \o <<128>> \o Zeros((119 - (n % 64)) % 64) \o
        <<bits % 256, (bits \div 256) % 256, (bits \div 65536) % 256, 0, 0, 0, 0, 0>>

\* Word g (0..15) of the block that starts after byte off, little-endian.
Md5Word(m, off, g) ==
    LET p == off + 4 * g
    IN  <<m[p + 3] + 256 * m[p + 4], m[p + 1] + 256 * m[p + 2]>>

Md5F(i, b, c, d) ==
    IF i < 16 THEN WOr(WAnd(b, c), WAnd(WNot(b), d))
    ELSE IF i < 32 THEN WOr(WAnd(d, b), WAnd(WNot(d), c))
    ELSE IF i < 48 THEN WXor(b, WXor(c, d))
    ELSE WXor(c, WOr(b, WNot(d)))

Md5G(i) ==
    IF i < 16 THEN i
    ELSE IF i < 32 THEN (5 * i + 1) % 16
    ELSE IF i < 48 THEN (3 * i + 5) % 16
    ELSE (7 * i) % 16

\* Round i on the block at off, from the state st = <<A, B, C, D>>.
Md5Round(m, off, i, st) ==
    LET f == WAdd(WAdd(Md5F(i, st[2], st[3], st[4]), st[1]),
                  WAdd(Md5K[i + 1], Md5Word(m, off, Md5G(i))))
    IN  <<st[4], WAdd(st[2], RotL(f, Md5S[i + 1])), st[2], st[3]>>

\* Rounds i..i+n-1 from the state st, the first half of them and then the
\* second.  (Len(st) = 4 has the first half evaluated before the second.)
RECURSIVE Md5Span(_, _, _, _, _)
Md5Span(m, off, i, n, st) ==
    IF Len(st) = 4 /\ n = 1 THEN Md5Round(m, off, i, st)
    ELSE Md5Span(m, off, i + (n \div 2), n - (n \div 2),
                 Md5Span(m, off, i, n \div 2, st))

\* The 64 rounds on the block at off.
Md5Rounds(m, off, st) == Md5Span(m, off, 0, 64, st)

RECURSIVE Md5Blocks(_, _, _)
Md5Blocks(m, off, h) ==
    IF off >= Len(m) THEN h
    ELSE LET st == Md5Rounds(m, off, h)
         IN  Md5Blocks(m, off + 64, <<WAdd(h[1], st[1]), WAdd(h[2], st[2]),
                                      WAdd(h[3], st[3]), WAdd(h[4], st[4])>>)

HexDigits == <<"0", "1", "2", "3", "4", "5", "6", "7",
               "8", "9", "a", "b", "c", "d", "e", "f">>

HexByte(b) == <<HexDigits[(b \div 16) + 1], HexDigits[(b % 16) + 1]>>

HexWord(w) ==
    HexByte(w[2] % 256) \o HexByte(w[2] \div 256) \o
    HexByte(w[1] % 256) \o HexByte(w[1] \div 256)

Md5HexDigest(bytes) ==
    LET h == Md5Blocks(Md5Pad(bytes), 0, Md5Init)
    IN  HexWord(h[1]) \o HexWord(h[2]) \o HexWord(h[3]) \o HexWord(h[4])

\* outage['date'] and the like
Get(dict, k) == dict[CHOOSE i \in DOMAIN dict : dict[i][1] = k][2]

\* The dict that is hashed.
HashedWithoutStreets(dict) ==
    << <<"date", Get(dict, "date")>>,
       <<"locality", Get(dict, "locality")>>,
       <<"district", Get(dict, "district")>> >>
Hashed(dict) ==
    << <<"date", Get(dict, "date")>>,
       <<"locality", Get(dict, "locality")>>,
       <<"streets", Get(dict, "streets")>>,
       <<"district", Get(dict, "district")>> >>

generate_outage_id(dict) == Md5HexDigest(Encode(JsonDumps(Hashed(dict))))

\* The rows offered to generate_outage_id.  parse_table_html builds
\* {date, locality, streets, district} in this order; the rows below also
\* come in the reverse order and with id, from and to added.
ParsedRow(d, l, s, t) ==
    << <<"date", d>>, <<"locality", l>>, <<"streets", s>>, <<"district", t>> >>

ParsedRows ==
    {ParsedRow(<<"a">>, <<"a">>, <<"a">>, <<"a">>),
     ParsedRow(<<"b">>, <<"a">>, <<"a">>, <<"a">>),
     ParsedRow(<<"a">>, <<"a", "b">>, <<>>, <<"a">>),
     ParsedRow(<<"a">>, <<"a">>, <<"b">>, <<"a">>),
     ParsedRow(<<"a">>, <<"a">>, <<"b", "\"">>, <<"a">>),
     ParsedRow(<<"a">>, <<"a">>, <<"a">>, <<"e-acute">>)}

Reverse(q) == [i \in 1..Len(q) |-> q[Len(q) + 1 - i]]

WithTimes(dict, from, to) ==
    << <<"id", <<"a">> >>, <<"from", from>> >> \o dict \o << <<"to", to>> >>

Rows ==
    ParsedRows \cup {Reverse(r) : r \in ParsedRows}
               \cup {WithTimes(r, <<"a">>, <<"b">>) : r \in ParsedRows}
               \cup {WithTimes(r, <<"b">>, <<"b">>) : r \in ParsedRows}

NotComputed == <<>>
NoDict == <<>>

(***************************************************************************)
(* parse_french_date (bot/ceb_parser.py).  A str is a sequence of          *)
(* characters and a date string the sequence of its words, which is what   *)
(* re.sub(r'\s+', ' ', date_str).strip() leaves to tell apart.  A naive    *)
(* datetime is <<ordinal, second of the day, microsecond>>, the ordinal as *)
(* date.toordinal() counts it; an aware datetime of a known zone is its    *)
(* wall time.                                                              *)
(***************************************************************************)
None == <<>>

Digits == <<"0", "1", "2", "3", "4", "5", "6", "7", "8", "9">>
IsDigit(c) == \E d \in 1..10 : Digits[d] = c
DigitValue(c) == (CHOOSE d \in 1..10 : Digits[d] = c) - 1

\* int(str) of a string of digits
RECURSIVE int(_)
int(str) ==
    IF str = <<>> THEN 0
    ELSE 10 * int(SubSeq(str, 1, Len(str) - 1)) + DigitValue(str[Len(str)])

UpperCase == <<"A", "D", "E", "L", "M", "R", "S">>
LowerCase == <<"a", "d", "e", "l", "m", "r", "s">>

\* str.lower(), and the case folding of re.IGNORECASE
LowerChar(c) ==
    IF \E i \in 1..Len(UpperCase) : UpperCase[i] = c
    THEN LowerCase[CHOOSE i \in 1..Len(UpperCase) : UpperCase[i] = c]
    ELSE c
lower(str) == [i \in 1..Len(str) |-> LowerChar(str[i])]

\* FRENCH_MONTHS
FRENCH_MONTHS ==
    {<<<<"j", "a", "n", "v", "i", "e", "r">>, 1>>,
     <<<<"f", "e-acute", "v", "r", "i", "e", "r">>, 2>>,
     <<<<"f", "e", "v", "r", "i", "e", "r">>, 2>>,
     <<<<"m", "a", "r", "s">>, 3>>,
     <<<<"a", "v", "r", "i", "l">>, 4>>,
     <<<<"m", "a", "i">>, 5>>,
     <<<<"j", "u", "i", "n">>, 6>>,
     <<<<"j", "u", "i", "l", "l", "e", "t">>, 7>>,
     <<<<"a", "o", "u-circumflex", "t">>, 8>>,
     <<<<"a", "o", "u", "t">>, 8>>,
     <<<<"s", "e", "p", "t", "e", "m", "b", "r", "e">>, 9>>,
     <<<<"o", "c", "t", "o", "b", "r", "e">>, 10>>,
     <<<<"n", "o", "v", "e", "m", "b", "r", "e">>, 11>>,
     <<<<"d", "e-acute", "c", "e", "m", "b", "r", "e">>, 12>>,
     <<<<"d", "e", "c", "e", "m", "b", "r", "e">>, 12>>}

\* FRENCH_MONTHS.get(name): the month number, or 0 for None ("if not month")
MonthOf(name) ==
    IF \E e \in FRENCH_MONTHS : e[1] = name
    THEN (CHOOSE e \in FRENCH_MONTHS : e[1] = name)[2]
    ELSE 0

\* DATE_PATTERN, word by word
IsWordChar(c) == c \notin {":", "-", ".", ","}                  \* \w
IsWord(str) == str # <<>> /\ \A i \in 1..Len(str) : IsWordChar(str[i])   \* \w+
IsDigits(str, lo, hi) ==                                         \* \d{lo,hi}
    Len(str) \in lo..hi /\ \A i \in 1..Len(str) : IsDigit(str[i])
IsTime(str) ==                                                   \* \d{2}:\d{2}:\d{2}
    /\ Len(str) = 8
    /\ \A i \in {1, 2, 4, 5, 7, 8} : IsDigit(str[i])
    /\ str[3] = ":" /\ str[6] = ":"

\* DATE_PATTERN.match(date_str): the pattern is anchored at the start only,
\* so the last group may be followed by anything.
Matches(words) ==
    /\ Len(words) >= 9
    /\ lower(words[1]) = <<"l", "e">>
    /\ IsWord(words[2])
    /\ IsDigits(words[3], 1, 2)
    /\ IsWord(words[4])
    /\ IsDigits(words[5], 4, 4)
    /\ lower(words[6]) = <<"d", "e">>
    /\ IsTime(words[7])
    /\ lower(words[8]) \in {<<"a-grave">>, <<"a">>}
    /\ Len(words[9]) >= 8 /\ IsTime(SubSeq(words[9], 1, 8))

\* str.split(':') of a matched time
TimeParts(str) == <<SubSeq(str, 1, 2), SubSeq(str, 4, 5), SubSeq(str, 7, 8)>>

\* datetime's calendar
IsLeap(y) == y % 4 = 0 /\ (y % 100 # 0 \/ y % 400 = 0)
DaysInMonth(y, m) ==
    IF m = 2 THEN (IF IsLeap(y) THEN 29 ELSE 28)
    ELSE IF m \in {4, 6, 9, 11} THEN 30 ELSE 31
DaysBeforeYear(y) ==
    LET p == y - 1 IN p * 365 + (p \div 4) - (p \div 100) + (p \div 400)
RECURSIVE DaysBeforeMonth(_, _)
DaysBeforeMonth(y, m) ==
    IF m = 1 THEN 0 ELSE DaysBeforeMonth(y, m - 1) + DaysInMonth(y, m - 1)
Ordinal(y, m, d) == DaysBeforeYear(y) + DaysBeforeMonth(y, m) + d

\* datetime(year, month, day, hour, minute, second) raises ValueError
ValidDateTime(y, m, d, hh, mm, ss) ==
    /\ y \in 1..9999
    /\ m \in 1..12
    /\ d \in 1..DaysInMonth(y, m)
    /\ hh \in 0..23 /\ mm \in 0..59 /\ ss \in 0..59
DateTime(y, m, d, hh, mm, ss) == <<Ordinal(y, m, d), hh * 3600 + mm * 60 + ss, 0>>

\* a < b for naive datetimes, and for aware ones of the same zone, which
\* Python compares by wall time
Before(a, b) ==
    \/ a[1] < b[1]
    \/ a[1] = b[1] /\ a[2] < b[2]
    \/ a[1] = b[1] /\ a[2] = b[2] /\ a[3] < b[3]

\* dt + timedelta(seconds=n), |n| at most a day
Plus(dt, n) ==
    LET s == dt[2] + n
    IN  IF s < 0 THEN <<dt[1] - 1, s + 86400, dt[3]>>
        ELSE IF s >= 86400 THEN <<dt[1] + 1, s - 86400, dt[3]>>
        ELSE <<dt[1], s, dt[3]>>

\* ZoneInfo("Indian/Mauritius").utcoffset(wall), fold = 0, in seconds: local
\* mean time +3:50 until 1907, then +4, with summer time +5 in 1982-83 and
\* 2008-09.  A wall time in a gap takes the offset before the change, one
\* that occurs twice the first occurrence.
SummerTime(wall) ==
    \/ /\ ~Before(wall, DateTime(1982, 10, 10, 1, 0, 0))
       /\ Before(wall, DateTime(1983, 3, 21, 0, 0, 0))
    \/ /\ ~Before(wall, DateTime(2008, 10, 26, 3, 0, 0))
       /\ Before(wall, DateTime(2009, 3, 29, 2, 0, 0))
utcoffset(wall) ==
    IF Before(wall, DateTime(1907, 1, 1, 0, 10, 0)) THEN 13800
    ELSE IF SummerTime(wall) THEN 18000
    ELSE 14400

\* wall.astimezone(UTC_TZ)
ToUtc(wall) == Plus(wall, 0 - utcoffset(wall))

\* datetime.max is in year 9999, datetime.min in year 1: arithmetic that
\* leaves the range raises OverflowError, which "except (ValueError,
\* IndexError)" does not catch.
MaxOrdinal == Ordinal(9999, 12, 31)
OverflowError == <<"OverflowError">>

parse_french_date(words) ==
    IF words = <<>> THEN <<None, None>>
    ELSE IF ~Matches(words) THEN <<None, None>>     \* "Could not parse date string"
    ELSE
      LET month == MonthOf(lower(words[4]))
      IN
      IF month = 0 THEN <<None, None>>              \* "Unknown French month"
      ELSE
        LET day  == int(words[3])
            year == int(words[5])
            from_parts == TimeParts(words[7])
            to_parts   == TimeParts(SubSeq(words[9], 1, 8))
            from_hour == int(from_parts[1])
            from_min  == int(from_parts[2])
            from_sec  == int(from_parts[3])
            to_hour == int(to_parts[1])
            to_min  == int(to_parts[2])
            to_sec  == int(to_parts[3])
        IN
        IF \/ ~ValidDateTime(year, month, day, from_hour, from_min, from_sec)
           \/ ~ValidDateTime(year, month, day, to_hour, to_min, to_sec)
        THEN <<None, None>>                         \* ValueError
        ELSE
          LET from_time == DateTime(year, month, day, from_hour, from_min, from_sec)
              to_time   == DateTime(year, month, day, to_hour, to_min, to_sec)
              to_next   == IF Before(to_time, from_time)
                           THEN <<to_time[1] + 1, to_time[2], to_time[3]>>
                           ELSE to_time
          IN  IF \/ to_next[1] > MaxOrdinal       \* to_time += timedelta(days=1)
                 \/ ToUtc(from_time)[1] < 1       \* from_time.astimezone(UTC_TZ)
                 \/ ToUtc(to_next)[1] < 1
              THEN OverflowError
              ELSE <<ToUtc(from_time), ToUtc(to_next)>>

\* The strings offered to parse_french_date.
Chars2(n) == <<Digits[(n \div 10) + 1], Digits[(n % 10) + 1]>>
TimeWord(hh, mm, ss) == Chars2(hh) \o <<":">> \o Chars2(mm) \o <<":">> \o Chars2(ss)
DayWords == {<<"0">>, <<"1", "3">>, <<"1", "5">>, <<"2", "6">>, <<"2", "8">>, <<"3", "1">>}
MonthWords ==
    {<<"m", "a", "r", "s">>, <<"M", "a", "r", "s">>, <<"m", "a", "r", "z">>,
     <<"o", "c", "t", "o", "b", "r", "e">>, <<"n", "o", "v", "e", "m", "b", "r", "e">>}
YearWords == {<<"2", "0", "0", "8">>, <<"2", "0", "0", "9">>, <<"2", "0", "2", "2">>}
TimeWords ==
    {TimeWord(9, 30, 0), TimeWord(13, 0, 0), TimeWord(2, 30, 0), TimeWord(3, 0, 0),
     TimeWord(2, 29, 59), TimeWord(24, 0, 0)}
DateString(d, m, y, f, t) ==
    <<(<<"L", "e">>), (<<"d", "i", "m", "a", "n", "c", "h", "e">>), d, m, y,
      (<<"d", "e">>), f, (<<"a-grave">>), t>>
DateStrings ==
    {DateString(d, m, y, f, t) :
        d \in DayWords, m \in MonthWords, y \in YearWords, f \in TimeWords, t \in TimeWords}
    \cup {<<(<<"d", "e", "m", "a", "i", "n">>)>>}

NotParsed == <<>>

(***************************************************************************)
(* categorize_outages (bot/ceb_parser.py).  The argument maps districts to *)
(* lists of outages and is the sequence of those lists in the order        *)
(* .values() gives them.  Of an outage, "id" and "from" matter: "from" is  *)
(* None, "", an ISO-8601 string <<"str", wall time, offset suffix>> or an  *)
(* aware UTC datetime <<"datetime", wall time>>.                           *)
(***************************************************************************)
NoInstant == <<>>
NotCategorized == <<>>
EmptyString == <<"str">>

\* the offset a suffix states, in seconds, after .replace('Z', '+00:00')
SuffixOffset(suffix) ==
    CASE suffix = "Z"      -> 0
      [] suffix = "+00:00" -> 0
      [] suffix = "+04:00" -> 14400

\* "from" as a UTC wall time: datetime.fromisoformat(...) for a str
FromTimeUtc(from) ==
    IF from[1] = "str" THEN Plus(from[2], 0 - SuffixOffset(from[3])) ELSE from[2]

\* ZoneInfo("Indian/Mauritius").fromutc: the offset in force at a UTC time
OffsetAtUtc(utc) ==
    IF Before(utc, DateTime(1906, 12, 31, 20, 10, 0)) THEN 13800
    ELSE IF \/ /\ ~Before(utc, DateTime(1982, 10, 9, 20, 0, 0))
               /\ Before(utc, DateTime(1983, 3, 20, 19, 0, 0))
            \/ /\ ~Before(utc, DateTime(2008, 10, 25, 22, 0, 0))
               /\ Before(utc, DateTime(2009, 3, 28, 21, 0, 0))
    THEN 18000
    ELSE 14400

\* from_time.astimezone(MAURITIUS_TZ), as a wall time
FromTimeLocal(from) ==
    LET utc == FromTimeUtc(from) IN Plus(utc, OffsetAtUtc(utc))

\* now.replace(hour=23, minute=59, second=59, microsecond=999999)
EndOfToday(t) == <<t[1], 86399, 999999>>

\* not outage.get('from')
NoFrom(o) == o.from = None \/ o.from = EmptyString

\* from_time_local <= end_of_today
IsTodayStrict(from, end) == Before(FromTimeLocal(from), end)
IsToday(from, end) == ~Before(end, FromTimeLocal(from))

RECURSIVE Flatten(_)
Flatten(lists) == IF lists = <<>> THEN <<>> ELSE Head(lists) \o Flatten(Tail(lists))

RECURSIVE Select(_, _, _)
Select(list, end, today) ==
    IF list = <<>> THEN <<>>
    ELSE LET o == Head(list)
             rest == Select(Tail(list), end, today)
         IN  IF NoFrom(o) THEN rest
             ELSE IF IsToday(o.from, end) = today THEN <<o>> \o rest
             ELSE rest

categorize_outages(by_district, t) ==
    LET end_of_today == EndOfToday(t)
        all == Flatten(by_district)
    IN  [today  |-> Select(all, end_of_today, TRUE),
         future |-> Select(all, end_of_today, FALSE)]

\* The calls offered to categorize_outages: a day, two times of that day,
\* and starts around the end of it.
Today == Ordinal(2022, 3, 13)
Nows == {<<Today, 36000, 0>>, <<Today, 86399, 999500>>}
Froms ==
    {None, EmptyString,
     <<"str", <<Today, 19800, 0>>, "+00:00">>,            \* 09:30 local
     <<"str", <<Today - 1, 19800, 0>>, "Z">>,             \* the day before
     <<"str", <<Today, 71999, 999000>>, "+00:00">>,       \* 23:59:59.999 local
     <<"datetime", <<Today, 71999, 999999>>>>,            \* 23:59:59.999999 local
     <<"str", <<Today, 72000, 0>>, "Z">>,                 \* midnight, local
     <<"str", <<Today, 72000, 999000>>, "+00:00">>,       \* 00:00:00.999 local
     <<"str", <<Today + 1, 0, 999000>>, "+04:00">>,       \* the same, as local time
     <<"datetime", <<Today + 1, 19800, 0>>>>}             \* the day after
CategorizeRecords == {[id |-> i, from |-> f] : i \in {"o1"}, f \in Froms}

\* Every way to cut a list into two districts' lists.
Districts(list) ==
    {<<SubSeq(list, 1, k), SubSeq(list, k + 1, Len(list))>> : k \in 0..Len(list)}
CategorizeArguments ==
    UNION {Districts(list) : list \in SeqsUpTo(CategorizeRecords, MaxRecords)}

(***************************************************************************)
(* The tables and documents offered to one call of _process_outages.       *)
(***************************************************************************)
Snapshots ==
    {d \in {[today |-> t, future |-> f] : t \in SeqsUpTo(FeedRecords, MaxSnapshot),
                                          f \in SeqsUpTo(FeedRecords, MaxSnapshot)} :
        Len(d.today) + Len(d.future) <= MaxSnapshot}

\* Each outage either unknown or stored as first published at time 0.
BatchTables ==
    {[o \in OutageIds |-> IF o \in S THEN NewOutage(FeedRecord(o, "v1"), 0) ELSE NoRow] :
        S \in SUBSET OutageIds}

(***************************************************************************)
(* Initial state: empty tables, both jobs registered (main.py 119-135),    *)
(* nothing running.                                                        *)
(***************************************************************************)
InitPipeline ==
    /\ outages = [o \in OutageIds |-> NoRow]
    /\ notifications_sent = {}
    /\ users = {}
    /\ is_active = [u \in Users |-> TRUE]
    /\ subscriptions = {}
    /\ jobstore = Jobs
    /\ runs = 0
    /\ commands = 0
    /\ pc = [j \in Jobs |-> "idle"]
    /\ new_outage_ids = [j \in Jobs |-> <<>>]
    /\ outage = [j \in Jobs |-> NoId]
    /\ users_with_lang = [j \in Jobs |-> <<>>]
    /\ user_id = [j \in Jobs |-> NoUser]
    /\ delivered = [p \in Pairs |-> 0]
    /\ failed = {}
    /\ owed = [j \in Jobs |-> {}]
    /\ escaped = FALSE
    /\ attempted = [j \in Jobs |-> {}]
    /\ no_data = NoJob
    /\ resting = Rested
    /\ undispatched = {}

InitDetect ==
    /\ clock = 0
    /\ last_data = [today |-> <<>>, future |-> <<>>]
    /\ last_clean = FALSE
    /\ last_new = <<>>
    /\ again = FALSE
    /\ clean_before = FALSE

InitFingerprint ==
    /\ row_id = NotComputed
    /\ row_before = NoDict
    /\ id_before = NotComputed
    /\ fingerprints = 0

InitDates == parsed = NotParsed

InitCategorize == categorized = NotCategorized

InitBatch ==
    /\ batch = "none"
    /\ outages_before = [o \in OutageIds |-> NoRow]

\* No second instance and no call of the HTML variant.
\* no subscription, no selection in progress, nothing called
NoCall == [name |-> "", user |-> NoUser, locality |-> 0, value |-> "", count |-> 0]

InitSession ==
    /\ subscription_rows = [p \in Users \X LocalityIds |-> 0]
    /\ user_subscription_state = [u \in {} |-> {}]
    /\ called = NoCall

InitApart ==
    /\ InitSession
    /\ at = [j \in Jobs |-> 0]
    /\ existing = [j \in Jobs |-> FALSE]
    /\ html = <<>>
    /\ raw_outages = <<>>
    /\ returned = <<>>

\* The functions checked on their own have not been called.
InitUnits ==
    /\ InitDates
    /\ date_str = <<>>
    /\ InitCategorize
    /\ now_local = NoInstant
    /\ outages_by_district = <<>>
    /\ InitBatch
    /\ batch_faults = <<>>

Init ==
    /\ InitPipeline
    /\ history = FALSE
    /\ InitDetect
    /\ InitFingerprint
    /\ row = NoDict
    /\ InitUnits
    /\ InitApart

\* The invocation in slot j is over.
EndRun(j) ==
    /\ pc' = [pc EXCEPT ![j] = "idle"]
    /\ new_outage_ids' = [new_outage_ids EXCEPT ![j] = <<>>]
    /\ outage' = [outage EXCEPT ![j] = NoId]
    /\ users_with_lang' = [users_with_lang EXCEPT ![j] = <<>>]
    /\ user_id' = [user_id EXCEPT ![j] = NoUser]

\* An exception of class exc raised inside frames[1] while slot j runs:
\* every frame that catches it ends the run.
RaiseIn(j, frames, exc, conn) ==
    /\ EndRun(j)
    /\ escaped' = (escaped \/ CaughtBy(frames, exc, conn) = "none")

\* A scheduler that treats the "date" trigger like the "interval" one.
AfterFiringKeep(j, store) == store

\* "date" trigger: the job is dropped once it has fired; "interval"
\* trigger: the job stays.
AfterFiring(j, store) == IF j = "initial_check" THEN store \ {j} ELSE store

(***************************************************************************)
(* The scheduler fires job j: monitor_job -> run_monitor_check ->          *)
(* check_for_outages up to "await client.get(JSON_URL)".  A job has at     *)
(* most one running instance (the scheduler's max_instances default), but  *)
(* the two jobs are distinct.                                              *)
(***************************************************************************)
StartRun(j) ==
    /\ j \in jobstore
    /\ pc[j] = "idle"
    /\ runs < MaxRuns
    /\ pc' = [pc EXCEPT ![j] = "fetch"]
    /\ runs' = runs + 1
    /\ jobstore' = AfterFiring(j, jobstore)
    /\ owed' = [owed EXCEPT ![j] = IF \A k \in Jobs : pc[k] = "idle" THEN failed ELSE {}]
    /\ attempted' = [attempted EXCEPT ![j] = {}]
    /\ no_data' = NoJob
    /\ UNCHANGED <<storage, commands, new_outage_ids, outage, users_with_lang, user_id,
                   delivered, history, failed, escaped, resting, undispatched, aside>>

\* A detection that takes a feed it could not fetch for a feed without
\* outages and clears the table.
NoDataReceivedClears(outs) == [o \in OutageIds |-> NoRow]

\* if not outages_data: "No data received from JSON endpoint", return
NoDataReceived(outs) == outs

\* _fetch_outages raises (network error, timeout, non-2xx status, invalid
\* JSON) or returns a falsy document: "No data received", return.
FetchFail(j) ==
    /\ pc[j] = "fetch"
    /\ \E exc \in {"HTTPError", "Exception"} :
          IF CaughtBy(<<"_fetch_outages">> \o RunFrames, exc, FALSE) = "_fetch_outages"
          THEN EndRun(j) /\ escaped' = escaped /\ no_data' = j
          ELSE RaiseIn(j, RunFrames, exc, FALSE) /\ no_data' = NoJob
    /\ owed' = [owed EXCEPT ![j] = {}]
    /\ outages' = NoDataReceived(outages)
    /\ UNCHANGED <<notifications_sent, users, is_active, subscriptions, sched, commands,
                   delivered, history, failed, attempted, resting, undispatched,
                   aside>>

\* The sleep of slot j, if the step ends one, has ended.
AfterSleep(j) ==
    IF history /\ pc[j] = "sleep" /\ j \in resting THEN Rested ELSE resting

\* _send_notifications in slot j runs on to its next await.  ow is owed as
\* the step leaves it but for the delivery it starts.
Continue(j, ids, cur, lst, outs, ow) ==
    \E out \in Advance(ids, cur, lst, outs, notifications_sent, subscriptions, is_active) :
        \/ /\ out.kind = "send"                 \* bot.send_message is awaited
           /\ pc' = [pc EXCEPT ![j] = "send"]
           /\ new_outage_ids' = [new_outage_ids EXCEPT ![j] = out.ids]
           /\ outage' = [outage EXCEPT ![j] = out.cur]
           /\ users_with_lang' = [users_with_lang EXCEPT ![j] = out.lst]
           /\ user_id' = [user_id EXCEPT ![j] = out.target]
           /\ owed' = [k \in Jobs |-> ow[k] \ {<<out.target, out.cur>>}]
           /\ attempted' = IF history
                            THEN [attempted EXCEPT ![j] = @ \cup {<<out.target, out.cur>>}]
                            ELSE attempted
           /\ resting' = IF history THEN {} ELSE resting
           /\ escaped' = escaped
        \/ /\ out.kind = "done"
           /\ EndRun(j)
           /\ owed' = ow
           /\ resting' = AfterSleep(j)
           /\ UNCHANGED <<escaped, attempted>>
        \/ /\ out.kind = "fault"
           /\ \E conn \in BOOLEAN : RaiseIn(j, DispatchFrames, "SQLAlchemyError", conn)
           /\ owed' = [ow EXCEPT ![j] = {}]
           /\ resting' = AfterSleep(j)
           /\ UNCHANGED attempted

\* The pairs of the outages this step stores as new (outs is the table after
\* _process_outages) and the active users subscribed to the locality of
\* that name in that district.
StoredAsNew(outs) ==
    {p \in Pairs :
        /\ outages[p[2]] = NoRow
        /\ outs[p[2]] # NoRow
        /\ is_active[p[1]]
        /\ \E l \in LocalityIds :
              /\ <<p[1], l>> \in subscriptions
              /\ Locality[l].name = outs[p[2]].locality
              /\ Locality[l].district = outs[p[2]].district}

\* pairs without the one the step of slot j starts a delivery to
Undispatched(j, pairs) ==
    IF ~history THEN undispatched
    ELSE IF pc'[j] = "send" THEN pairs \ {<<user_id'[j], outage'[j]>>}
    ELSE pairs

\* The ids of the records of a document.
IdsOf(data) == {AllOutages(data)[i].id : i \in 1..Len(AllOutages(data))} \ {NoId}

\* The pairs a run owes a delivery once it has classified the document:
\* those whose latest delivery had failed transiently when the run started
\* and whose outage the document carries.
Owed(data, res, fld) ==
    IF res.aborted THEN {} ELSE {p \in fld : p[2] \in IdsOf(data)}

(***************************************************************************)
(* The feed arrives: _process_outages(data), then, if it returned new ids, *)
(* _send_notifications(new_outages) up to its first await.                 *)
(***************************************************************************)
FetchReturn(j) ==
    /\ pc[j] = "fetch"
    /\ \E data \in Feeds : \E faults \in FaultsFor(data) :
         LET res == ProcessOutages(data, faults, outages, clock)
             ow  == [owed EXCEPT ![j] = Owed(data, res, owed[j])]
         IN  /\ outages' = res.outages
             /\ IF res.raised
                THEN /\ RaiseIn(j, RunFrames, "SQLAlchemyError", TRUE)
                     /\ owed' = ow
                     /\ UNCHANGED <<attempted, resting>>
                ELSE IF res.new = <<>>
                THEN EndRun(j) /\ owed' = ow /\ UNCHANGED <<escaped, attempted, resting>>
                ELSE Continue(j, res.new, NoId, <<>>, res.outages, ow)
             /\ undispatched' = Undispatched(j, undispatched \cup StoredAsNew(res.outages))
    /\ no_data' = NoJob
    /\ UNCHANGED <<notifications_sent, users, is_active, subscriptions, sched, commands,
                   delivered, history, failed, aside>>

(***************************************************************************)
(* bot.send_message returns or raises.  _send_notification_to_user turns   *)
(* the result into a bool; a TelegramError whose text contains "blocked"   *)
(* or "deactivated" also marks the user inactive.                          *)
(***************************************************************************)
SendResults == {"ok", "blocked", "telegram_error", "error"}

\* return True / return False
SuccessAlways(result) == TRUE
Success(result) == result = "ok"

\* "blocked" in str(e).lower() or "deactivated" in str(e).lower()
Permanent(result) == result = "blocked"

\* user.is_active = False, for the row with that telegram_id if there is one
Deactivate(u, rows, act) == IF u \in rows THEN [act EXCEPT ![u] = FALSE] ELSE act

\* uq_user_outage: a second row for the pair makes the commit raise
InsertRaises(p, sent) == p \in sent

SendReturn(j) ==
    /\ pc[j] = "send"
    /\ \E result \in SendResults : \E fault \in {"ok", "commit", "conn"} :
         LET p == <<user_id[j], outage[j]>>
             raises ==
                 \/ Success(result) /\ (fault # "ok" \/ InsertRaises(p, notifications_sent))
                 \/ ~Success(result) /\ Permanent(result) /\ fault # "ok"
             toSleep ==
                 /\ pc' = [pc EXCEPT ![j] = "sleep"]
                 /\ user_id' = [user_id EXCEPT ![j] = NoUser]
                 /\ UNCHANGED <<new_outage_ids, outage, users_with_lang, escaped>>
             began == IF history /\ resting # Rested THEN resting \cup {j} ELSE resting
         IN
         /\ delivered' = IF result = "ok" THEN [delivered EXCEPT ![p] = @ + 1]
                         ELSE delivered
         /\ failed' = IF ~history THEN failed
                      ELSE IF Success(result) \/ Permanent(result) THEN failed \ {p}
                      ELSE failed \cup {p}
         /\ owed' = IF raises THEN [owed EXCEPT ![j] = {}] ELSE owed
         /\ resting' = IF raises THEN resting ELSE began
         /\ IF Success(result)
            THEN \* db.add(NotificationSent(...)); db.commit()
                 /\ UNCHANGED is_active
                 /\ IF raises
                    THEN /\ RaiseIn(j, DispatchFrames, "SQLAlchemyError", fault = "conn")
                         /\ UNCHANGED notifications_sent
                    ELSE /\ notifications_sent' = notifications_sent \cup {p}
                         /\ toSleep
            ELSE /\ UNCHANGED notifications_sent
                 /\ IF Permanent(result)
                    THEN IF fault # "ok"
                         THEN \* raised inside the except block: leaves the method
                              /\ RaiseIn(j, DispatchFrames, "SQLAlchemyError", fault = "conn")
                              /\ UNCHANGED is_active
                         ELSE /\ is_active' = Deactivate(user_id[j], users, is_active)
                              /\ toSleep
                    ELSE /\ fault = "ok"
                         /\ UNCHANGED is_active
                         /\ toSleep
    /\ no_data' = NoJob
    /\ UNCHANGED <<outages, users, subscriptions, sched, commands, history, attempted,
                   undispatched, aside>>

\* asyncio.sleep(0.05) is over: on to the next recipient or outage.
SleepReturn(j) ==
    /\ pc[j] = "sleep"
    /\ Continue(j, new_outage_ids[j], outage[j], users_with_lang[j], outages, owed)
    /\ undispatched' = Undispatched(j, undispatched)
    /\ no_data' = NoJob
    /\ UNCHANGED <<storage, sched, commands, delivered, history, failed, aside>>

(***************************************************************************)
(* Command handlers (bot/handlers.py) that write storage.                  *)
(***************************************************************************)
\* a get_or_create_user that sets is_active on every call
GetOrCreateUserActive(u, rows, act) == [act EXCEPT ![u] = TRUE]

\* get_or_create_user: a new row gets is_active = True (column default),
\* an existing row keeps its flag.
GetOrCreateUser(u, rows, act) == IF u \in rows THEN act ELSE [act EXCEPT ![u] = TRUE]

\* add_subscription for every selected locality; an existing pair is kept.
AddSubscriptions(u, sel, subs) == subs \cup {<<u, l>> : l \in sel}

\* remove_all_subscriptions
RemoveAllSubscriptions(u, subs) == {s \in subs : s[1] # u}

\* button_callback, "confirm_subscriptions", with the user's selection sel
ConfirmSubscriptions(u, sel) ==
    /\ sel # {}
    /\ users' = users \cup {u}
    /\ is_active' = GetOrCreateUser(u, users, is_active)
    /\ subscriptions' = AddSubscriptions(u, sel, subscriptions)
    /\ UNCHANGED <<outages, notifications_sent, sched, local, aside>>

\* button_callback, "confirm_unsubscribe"
ConfirmUnsubscribe(u) ==
    /\ subscriptions' = RemoveAllSubscriptions(u, subscriptions)
    /\ UNCHANGED <<outages, notifications_sent, users, is_active, sched, local, aside>>

Handler ==
    /\ commands < MaxCommands
    /\ commands' = commands + 1
    /\ no_data' = NoJob
    /\ UNCHANGED <<delivered, history, failed, owed, escaped, attempted, resting,
                   undispatched>>
    /\ \E u \in Users :
          \/ \E sel \in SUBSET LocalityIds : ConfirmSubscriptions(u, sel)
          \/ ConfirmUnsubscribe(u)

(***************************************************************************)
(* The program.                                                            *)
(***************************************************************************)
Next ==
    \/ \E j \in Jobs : StartRun(j)
    \/ \E j \in Jobs : FetchFail(j)
    \/ \E j \in Jobs : FetchReturn(j)
    \/ \E j \in Jobs : SendReturn(j)
    \/ \E j \in Jobs : SleepReturn(j)
    \/ Handler

Spec == Init /\ [][Next]_vars

\* The same program with the history of transient failures kept.
InitHistory ==
    /\ InitPipeline
    /\ history = TRUE
    /\ InitDetect
    /\ InitFingerprint
    /\ row = NoDict
    /\ InitUnits
    /\ InitApart

SpecHistory == InitHistory /\ [][Next]_vars

(***************************************************************************)
(* _process_outages called on its own, one call after the other, each on   *)
(* any document and with any storage faults.                               *)
(***************************************************************************)
Detect ==
    /\ clock < MaxDetections
    /\ \E data \in DetectFeeds : \E faults \in FaultsFor(data) :
         LET res == ProcessOutages(data, faults, outages, clock)
         IN  /\ outages' = res.outages
             /\ last_new' = res.new
             /\ last_data' = data
             /\ last_clean' = NoFault(faults)
             /\ again' = (clock > 0 /\ data = last_data)
             /\ clean_before' = last_clean
    /\ clock' = clock + 1
    /\ UNCHANGED <<notifications_sent, users, is_active, subscriptions, sched, commands,
                   local, hist, fingerprint, units, apart>>

NextDetect == Detect

SpecDetect == Init /\ [][NextDetect]_vars

(***************************************************************************)
(* generate_outage_id called on its own: on a row, then on another.        *)
(***************************************************************************)
GenerateOutageId ==
    /\ row_id = NotComputed
    /\ row_id' = generate_outage_id(row)
    /\ fingerprints' = fingerprints + 1
    /\ UNCHANGED <<storage, sched, commands, local, hist, detect, row, row_before, id_before,
                   units, apart>>

NextRow ==
    /\ row_id # NotComputed
    /\ fingerprints < MaxFingerprints
    /\ row' \in Rows
    /\ row_id' = NotComputed
    /\ row_before' = row
    /\ id_before' = row_id
    /\ UNCHANGED <<storage, sched, commands, local, hist, detect, fingerprints, units, apart>>

InitRows ==
    /\ InitPipeline
    /\ history = FALSE
    /\ InitDetect
    /\ InitFingerprint
    /\ row \in Rows
    /\ InitUnits
    /\ InitApart

NextFingerprint == GenerateOutageId \/ NextRow

SpecFingerprint == InitRows /\ [][NextFingerprint]_vars

(***************************************************************************)
(* parse_french_date called on its own, on any of DateStrings.             *)
(***************************************************************************)
ParseFrenchDate ==
    /\ date_str # <<>>
    /\ parsed = NotParsed
    /\ parsed' = parse_french_date(date_str)
    /\ UNCHANGED <<storage, sched, commands, local, hist, detect, fingerprint, date_str,
                   now_local, outages_by_district, categorized, batch_faults, outages_before,
                   batch, apart>>

InitStrings ==
    /\ InitPipeline
    /\ history = FALSE
    /\ InitDetect
    /\ InitFingerprint
    /\ row = NoDict
    /\ InitDates
    /\ date_str \in DateStrings
    /\ InitCategorize
    /\ now_local = NoInstant
    /\ outages_by_district = <<>>
    /\ InitBatch
    /\ batch_faults = <<>>
    /\ InitApart

NextDates == ParseFrenchDate

SpecDates == InitStrings /\ [][NextDates]_vars

(***************************************************************************)
(* categorize_outages called on its own.                                   *)
(***************************************************************************)
CategorizeOutages ==
    /\ now_local # NoInstant
    /\ categorized = NotCategorized
    /\ categorized' = categorize_outages(outages_by_district, now_local)
    /\ UNCHANGED <<storage, sched, commands, local, hist, detect, fingerprint, date_str,
                   parsed, now_local, outages_by_district, batch_faults, outages_before, batch,
                   apart>>

InitArguments ==
    /\ InitPipeline
    /\ history = FALSE
    /\ InitDetect
    /\ InitFingerprint
    /\ row = NoDict
    /\ InitDates
    /\ date_str = <<>>
    /\ InitCategorize
    /\ now_local \in Nows
    /\ outages_by_district \in CategorizeArguments
    /\ InitBatch
    /\ batch_faults = <<>>
    /\ InitApart

NextCategorize == CategorizeOutages

SpecCategorize == InitArguments /\ [][NextCategorize]_vars

(***************************************************************************)
(* One call of _process_outages, on any table of stored outages, any       *)
(* document and any storage faults.                                        *)
(***************************************************************************)
ProcessBatch ==
    /\ batch = "ready"
    /\ LET res == ProcessOutages(last_data, batch_faults, outages, clock)
       IN  /\ outages' = res.outages
           /\ last_new' = IF res.raised THEN <<>> ELSE res.new
           /\ batch' = IF res.raised THEN "raised" ELSE "returned"
    /\ UNCHANGED <<notifications_sent, users, is_active, subscriptions, sched, commands,
                   local, hist, clock, last_data, last_clean, again, clean_before,
                   fingerprint, date_str, parsed, now_local, outages_by_district, categorized,
                   batch_faults, outages_before, apart>>

InitSnapshot ==
    /\ outages \in BatchTables
    /\ outages_before = outages
    /\ notifications_sent = {}
    /\ users = {}
    /\ is_active = [u \in Users |-> TRUE]
    /\ subscriptions = {}
    /\ jobstore = Jobs
    /\ runs = 0
    /\ commands = 0
    /\ pc = [j \in Jobs |-> "idle"]
    /\ new_outage_ids = [j \in Jobs |-> <<>>]
    /\ outage = [j \in Jobs |-> NoId]
    /\ users_with_lang = [j \in Jobs |-> <<>>]
    /\ user_id = [j \in Jobs |-> NoUser]
    /\ delivered = [p \in Pairs |-> 0]
    /\ failed = {}
    /\ owed = [j \in Jobs |-> {}]
    /\ escaped = FALSE
    /\ attempted = [j \in Jobs |-> {}]
    /\ no_data = NoJob
    /\ resting = Rested
    /\ undispatched = {}
    /\ history = FALSE
    /\ clock = 1
    /\ last_data \in Snapshots
    /\ batch_faults \in FaultsFor(last_data)
    /\ last_clean = FALSE
    /\ last_new = <<>>
    /\ again = FALSE
    /\ clean_before = FALSE
    /\ InitFingerprint
    /\ row = NoDict
    /\ InitDates
    /\ date_str = <<>>
    /\ InitCategorize
    /\ now_local = NoInstant
    /\ outages_by_district = <<>>
    /\ batch = "ready"
    /\ InitApart

NextBatch == ProcessBatch

SpecBatch == InitSnapshot /\ [][NextBatch]_vars

(***************************************************************************)
(* The scheduler's order of first firings (bot/main.py, main).  The "date" *)
(* job with run_date=None is due at the moment it is added, the "interval" *)
(* job one interval of POLLING_INTERVAL minutes after the scheduler was    *)
(* started: the initial job is the first to fire.                          *)
(***************************************************************************)
Due(j) == j = "outage_monitor" => "initial_check" \notin jobstore

Fire(j) == Due(j) /\ StartRun(j)

\* One step of a run of job j that has been started.
RunStep(j) == FetchFail(j) \/ FetchReturn(j) \/ SendReturn(j) \/ SleepReturn(j)

NextScheduled ==
    \/ \E j \in Jobs : Fire(j)
    \/ \E j \in Jobs : FetchFail(j)
    \/ \E j \in Jobs : FetchReturn(j)
    \/ \E j \in Jobs : SendReturn(j)
    \/ \E j \in Jobs : SleepReturn(j)
    \/ Handler

\* The scheduler fires a job that is due, and every await of a run returns
\* or raises (client.get and send_message have timeouts, sleep is 0.05 s).
\* Commands depend on the users: no fairness.
Fairness ==
    /\ \A j \in Jobs : WF_vars(Fire(j))
    /\ \A j \in Jobs : WF_vars(RunStep(j))

SpecScheduled == Init /\ [][NextScheduled]_vars /\ Fairness

(***************************************************************************)
(* Two pipeline instances on one storage.  Each slot is a process of its   *)
(* own with its own session, so the statements of the two _process_outages *)
(* calls interleave: the existence query is one step, the commit that      *)
(* follows it another.  Both calls work through the document last_data.    *)
(***************************************************************************)
\* A storage without the primary key on outages.id.
PrimaryKeyNone(outs, id) == FALSE

\* Outage.id is the primary key: INSERT of an id that has a row raises
\* IntegrityError at db.commit().
PrimaryKeyViolated(outs, id) == outs[id] # NoRow

\* existing = db.query(Outage).filter(Outage.id == outage_id).first(), for
\* the record at[j]; a record without id is passed over, and after the
\* last record the call returns.
Query(j) ==
    /\ pc[j] = "query"
    /\ LET all == AllOutages(last_data)
       IN  IF at[j] > Len(all)
           THEN /\ pc' = [pc EXCEPT ![j] = "idle"]
                /\ UNCHANGED <<at, existing>>
           ELSE IF all[at[j]].id = NoId
           THEN /\ at' = [at EXCEPT ![j] = @ + 1]
                /\ UNCHANGED <<pc, existing>>
           ELSE /\ existing' = [existing EXCEPT ![j] = Existing(outages, all[at[j]].id)]
                /\ pc' = [pc EXCEPT ![j] = "commit"]
                /\ UNCHANGED at
    /\ UNCHANGED <<storage, sched, commands, new_outage_ids, outage, users_with_lang, user_id,
                   hist, detect, fingerprint, units, html, raw_outages, returned,
                   session>>

\* The branch taken on existing, up to the next query: Outage(...),
\* db.add, db.commit and the append to new_outage_ids, or the update of
\* last_checked and its commit.
Commit(j) ==
    /\ pc[j] = "commit"
    /\ LET rec == AllOutages(last_data)[at[j]]
       IN  IF ~existing[j]
           THEN IF ConstructRaises(rec) \/ PrimaryKeyViolated(outages, rec.id)
                THEN \* except Exception: db.rollback(), continue
                     UNCHANGED <<outages, new_outage_ids>>
                ELSE /\ outages' = [outages EXCEPT ![rec.id] = NewOutage(rec, clock)]
                     /\ new_outage_ids' = [new_outage_ids EXCEPT ![j] = Append(@, rec.id)]
           ELSE /\ outages' = [outages EXCEPT
                                  ![rec.id] = TouchOutage(outages[rec.id], rec, clock)]
                /\ UNCHANGED new_outage_ids
    /\ at' = [at EXCEPT ![j] = @ + 1]
    /\ pc' = [pc EXCEPT ![j] = "query"]
    /\ UNCHANGED <<notifications_sent, users, is_active, subscriptions, sched, commands,
                   outage, users_with_lang, user_id, hist, detect, fingerprint, units,
                   existing, html, raw_outages, returned,
                   session>>

InitInstances ==
    /\ outages \in BatchTables
    /\ outages_before = outages
    /\ notifications_sent = {}
    /\ users = {}
    /\ is_active = [u \in Users |-> TRUE]
    /\ subscriptions = {}
    /\ jobstore = Jobs
    /\ runs = 0
    /\ commands = 0
    /\ pc = [j \in Jobs |-> "query"]
    /\ at = [j \in Jobs |-> 1]
    /\ existing = [j \in Jobs |-> FALSE]
    /\ new_outage_ids = [j \in Jobs |-> <<>>]
    /\ outage = [j \in Jobs |-> NoId]
    /\ users_with_lang = [j \in Jobs |-> <<>>]
    /\ user_id = [j \in Jobs |-> NoUser]
    /\ delivered = [p \in Pairs |-> 0]
    /\ failed = {}
    /\ owed = [j \in Jobs |-> {}]
    /\ escaped = FALSE
    /\ attempted = [j \in Jobs |-> {}]
    /\ no_data = NoJob
    /\ resting = Rested
    /\ undispatched = {}
    /\ history = FALSE
    /\ clock = 1
    /\ last_data \in Snapshots
    /\ last_clean = FALSE
    /\ last_new = <<>>
    /\ again = FALSE
    /\ clean_before = FALSE
    /\ InitFingerprint
    /\ row = NoDict
    /\ InitDates
    /\ date_str = <<>>
    /\ InitCategorize
    /\ now_local = NoInstant
    /\ outages_by_district = <<>>
    /\ batch = "none"
    /\ batch_faults = <<>>
    /\ html = <<>>
    /\ raw_outages = <<>>
    /\ returned = <<>>
    /\ InitSession

NextInstances ==
    \/ \E j \in Jobs : Query(j)
    \/ \E j \in Jobs : Commit(j)

SpecInstances == InitInstances /\ [][NextInstances]_vars

(***************************************************************************)
(* parse_table_html (bot/ceb_parser.py).  html holds one item of           *)
(* district_data: the district and its fragment as BeautifulSoup's lxml    *)
(* builder gives it, a sequence of table elements.  lxml adds no tbody of  *)
(* its own, so the children of a table are what the fragment wrote:        *)
(* <<"tbody", rows>> or <<"tr", cells>>, a row being the texts of its td   *)
(* cells.                                                                  *)
(***************************************************************************)
MaxRows == 2          \* rows in a tbody
MaxChildren == 2      \* children of a table

\* get_text(strip=True)
Strip(text) == IF text = " " THEN "" ELSE text

TableRowSet ==
    {<<"d1", "l1", "s1">>, <<" ", "l2", "s2">>, <<"d3", "l3">>, <<"d4", " ", "s4", "x4">>}

TableChildren ==
    {<<"tbody", rows>> : rows \in SeqsUpTo(TableRowSet, MaxRows)}
    \cup {<<"tr", cells>> : cells \in TableRowSet}

Tables ==
    {[prefixed |-> ok, children |-> ch] :
        ok \in BOOLEAN, ch \in SeqsUpTo(TableChildren, MaxChildren)}

\* One table of any shape, or two tables of one body each.
Fragments ==
    {<<t>> : t \in Tables}
    \cup {<<[prefixed |-> a, children |-> << <<"tbody", <<r>>>> >>],
            [prefixed |-> b, children |-> << <<"tbody", <<q>>>> >>]>> :
            a \in BOOLEAN, b \in BOOLEAN, r \in TableRowSet, q \in TableRowSet}

DistrictNames == {"moka", "flacq"}

\* table.find('tbody'), as its rows; <<>> without one ("if not tbody:
\* continue"), and every tbody when "all" is set
RECURSIVE Bodies(_, _)
Bodies(children, all) ==
    IF children = <<>> THEN <<>>
    ELSE IF Head(children)[1] = "tbody"
         THEN Head(children)[2] \o (IF all THEN Bodies(Tail(children), all) ELSE <<>>)
         ELSE Bodies(Tail(children), all)

FirstBody(table) == Bodies(table.children, FALSE)

\* the loop over rows: len(cells) >= 3, "if not date_text: continue"
RECURSIVE RowOutages(_, _)
RowOutages(rows, district) ==
    IF rows = <<>> THEN <<>>
    ELSE LET cells == Head(rows)
             rest == RowOutages(Tail(rows), district)
         IN  IF Len(cells) >= 3 /\ Strip(cells[1]) # ""
             THEN <<[date     |-> Strip(cells[1]),
                     locality |-> Strip(cells[2]),
                     streets  |-> Strip(cells[3]),
                     district |-> district]>> \o rest
             ELSE rest

RECURSIVE parse_table_html(_, _)
parse_table_html(tables, district) ==
    IF tables = <<>> THEN <<>>
    ELSE (IF Head(tables).prefixed
          THEN RowOutages(FirstBody(Head(tables)), district)
          ELSE <<>>)
         \o parse_table_html(Tail(tables), district)

ParseTableHtml ==
    /\ returned = <<>>
    /\ raw_outages' = parse_table_html(html[2], html[1])
    /\ returned' = <<"parse_table_html">>
    /\ UNCHANGED <<storage, sched, commands, local, hist, detect, fingerprint, units,
                   at, existing, html,
                   session>>

InitFragment ==
    /\ InitPipeline
    /\ history = FALSE
    /\ InitDetect
    /\ InitFingerprint
    /\ row = NoDict
    /\ InitUnits
    /\ at = [j \in Jobs |-> 0]
    /\ existing = [j \in Jobs |-> FALSE]
    /\ html \in DistrictNames \X Fragments
    /\ raw_outages = <<>>
    /\ returned = <<>>
    /\ InitSession

NextTables == ParseTableHtml

SpecTables == InitFragment /\ [][NextTables]_vars

(***************************************************************************)
(* extract_district_data and the head of fetch_and_parse_outages           *)
(* (bot/ceb_parser.py).  A page is a sequence of pieces of text: "var" is  *)
(* the text "var arDistrictLocations = " exactly as the pattern spells it, *)
(* "kv" a member "key":"value", "sp" a blank, "nl" a line break; "{", "}", *)
(* "," and ";" are themselves.                                             *)
(***************************************************************************)
MaxValue == 5         \* pieces between "var {" and the closing ";"
MaxPage == 3          \* pieces of a page written freely

Pieces == {"var", "{", "}", ";", ",", "kv", "sp", "nl"}

Pages ==
    {<<"var", "{">> \o middle \o <<";">> : middle \in SeqsUpTo(Pieces \ {","}, MaxValue)}
    \cup {<<"var", "{", "kv", ",">> \o middle \o <<";">> :
             middle \in SeqsUpTo({"kv", "}", "sp", ","}, MaxValue - 2)}
    \cup SeqsUpTo(Pieces, MaxPage)

\* r'var arDistrictLocations = ({.+});' tried at position i: the ends j of
\* group 1, which opens at i + 1; "." matches no line break and ".+" at
\* least one character
GroupEnds(page, i) ==
    {j \in (i + 3)..(Len(page) - 1) :
        /\ page[i] = "var" /\ page[i + 1] = "{"
        /\ page[j] = "}" /\ page[j + 1] = ";"
        /\ \A k \in (i + 2)..(j - 1) : page[k] # "nl"}

Max(S) == CHOOSE x \in S : \A y \in S : y <= x
Min(S) == CHOOSE x \in S : \A y \in S : x <= y

\* re.search(...).group(1): the leftmost start that matches, and for it
\* the longest group; <<>> for no match
Group(page) ==
    LET starts == {i \in 1..Len(page) : GroupEnds(page, i) # {}}
    IN  IF starts = {} THEN <<>>
        ELSE SubSeq(page, Min(starts) + 1, Max(GroupEnds(page, Min(starts))))

\* the members of a JSON object between its braces: kv, or kv "," kv ...
RECURSIVE IsMembers(_)
IsMembers(text) ==
    \/ text = <<"kv">>
    \/ /\ Len(text) >= 3
       /\ text[1] = "kv" /\ text[2] = ","
       /\ IsMembers(SubSeq(text, 3, Len(text)))

NotBlank(piece) == piece \notin {"sp", "nl"}

JSONDecodeError == {"JSONDecodeError"}

\* json.loads(text) of a text that opens with "{": the keys of the
\* object, or JSONDecodeError
JsonLoads(text) ==
    LET t == SelectSeq(text, NotBlank)
    IN  IF Len(t) < 2 \/ t[1] # "{" \/ t[Len(t)] # "}" THEN JSONDecodeError
        ELSE IF Len(t) = 2 THEN {}
        ELSE IF IsMembers(SubSeq(t, 2, Len(t) - 1)) THEN {"key"}
        ELSE JSONDecodeError

extract_district_data(page) ==
    LET text == Group(page)
    IN  IF text = <<>> THEN {}                    \* "Could not find arDistrictLocations"
        ELSE LET loaded == JsonLoads(text)
             IN  IF loaded = JSONDecodeError THEN {} ELSE loaded

\* fetch_ceb_page returned the page: extract_district_data, then "if not
\* district_data: raise ValueError", else the districts are parsed
FetchAndParseOutages ==
    /\ returned = <<>>
    /\ html # <<>>
    /\ returned' = IF extract_district_data(html) = {} THEN <<"ValueError">> ELSE <<"dict">>
    /\ UNCHANGED <<storage, sched, commands, local, hist, detect, fingerprint, units,
                   at, existing, html, raw_outages,
                   session>>

\* fetch_ceb_page raises: the request failed, or raise_for_status
FetchCebPageRaises ==
    /\ returned = <<>>
    /\ returned' = <<"HTTPError">>
    /\ UNCHANGED <<storage, sched, commands, local, hist, detect, fingerprint, units,
                   at, existing, html, raw_outages,
                   session>>

InitPage ==
    /\ InitPipeline
    /\ history = FALSE
    /\ InitDetect
    /\ InitFingerprint
    /\ row = NoDict
    /\ InitUnits
    /\ at = [j \in Jobs |-> 0]
    /\ existing = [j \in Jobs |-> FALSE]
    /\ html \in Pages
    /\ raw_outages = <<>>
    /\ returned = <<>>
    /\ InitSession

NextPage == FetchAndParseOutages \/ FetchCebPageRaises

SpecPage == InitPage /\ [][NextPage]_vars

(***************************************************************************)
(* The loop of fetch_and_parse_outages over the rows of one district       *)
(* (bot/ceb_parser.py), with remove_duplicates and categorize_outages      *)
(* after it.  raw_outages is what parse_table_html returned, each row a    *)
(* dict of four strs.                                                      *)
(***************************************************************************)
MaxRaw == 3           \* rows of the district

\* "Le x 13 mars 2022 de 09:30:00 a 13:00:00" and the like
DateText(day, month, year, from, to) ==
    <<"L", "e", " ", "x", " ">> \o day \o <<" ">> \o month \o <<" ">> \o year
    \o <<" ", "d", "e", " ">> \o from \o <<" ", "a", " ">> \o to

RawOutages ==
    {ParsedRow(DateText(<<"1", "3">>, <<"m", "a", "r", "s">>, <<"2", "0", "2", "2">>,
                        TimeWord(9, 30, 0), TimeWord(13, 0, 0)),
               <<"a">>, <<"a">>, <<"a">>),
     ParsedRow(DateText(<<"1", "4">>, <<"m", "a", "r", "s">>, <<"2", "0", "2", "2">>,
                        TimeWord(9, 30, 0), TimeWord(13, 0, 0)),
               <<"b">>, <<>>, <<"a">>),
     ParsedRow(<<"d", "e", "m", "a", "i", "n">>, <<"a">>, <<"a">>, <<"a">>),
     ParsedRow(DateText(<<"3", "1">>, <<"d", "e", "c", "e", "m", "b", "r", "e">>,
                        <<"9", "9", "9", "9">>, TimeWord(23, 0, 0), TimeWord(1, 0, 0)),
               <<"a">>, <<"a">>, <<"a">>)}

\* the words that re.sub(r'\s+', ' ', date_str).strip() leaves
RECURSIVE Split(_)
Split(str) ==
    IF str = <<>> THEN <<>>
    ELSE IF Head(str) = " " THEN Split(Tail(str))
    ELSE LET blanks == {i \in 1..Len(str) : str[i] = " "}
             n == IF blanks = {} THEN Len(str) ELSE Min(blanks) - 1
         IN  <<SubSeq(str, 1, n)>> \o Split(SubSeq(str, n + 1, Len(str)))

\* from_time.isoformat() of an aware UTC datetime
IsoFormat(utc) == <<"str", utc, "+00:00">>

\* "if from_time and to_time": the processed outage, none for a row that
\* is skipped; raised when parse_french_date did not return
Processed(raw, outage_id, times) ==
    IF times = OverflowError THEN [raised |-> TRUE, list |-> <<>>]
    ELSE IF times = <<None, None>> THEN [raised |-> FALSE, list |-> <<>>]
    ELSE [raised |-> FALSE,
          list   |-> <<[id       |-> outage_id,
                        date     |-> Get(raw, "date"),
                        locality |-> Get(raw, "locality"),
                        streets  |-> Get(raw, "streets"),
                        district |-> Get(raw, "district"),
                        from     |-> IsoFormat(times[1]),
                        to       |-> IsoFormat(times[2])]>>]

\* one turn of "for outage in raw_outages"
ProcessedOutage(raw) ==
    Processed(raw, generate_outage_id(raw), parse_french_date(Split(Get(raw, "date"))))

\* a turn and the turns after it: the exception of the first that raises
Turns(first, rest) ==
    IF first.raised THEN first
    ELSE IF rest.raised THEN rest
    ELSE [raised |-> FALSE, list |-> first.list \o rest.list]

\* processed_outages after the loop, or the exception that ended it
RECURSIVE ProcessedOutages(_)
ProcessedOutages(raws) ==
    IF raws = <<>> THEN [raised |-> FALSE, list |-> <<>>]
    ELSE Turns(ProcessedOutage(Head(raws)), ProcessedOutages(Tail(raws)))

\* a function that keeps the dicts without a date
RECURSIVE RemoveSeenDateless(_, _)
RemoveSeenDateless(list, seen) ==
    IF list = <<>> THEN <<>>
    ELSE IF Head(list).id = <<>> \/ Head(list).id \in seen
         THEN RemoveSeenDateless(Tail(list), seen)
         ELSE <<Head(list)>> \o RemoveSeenDateless(Tail(list), seen \cup {Head(list).id})

remove_duplicates_dateless(list) == RemoveSeenDateless(list, {})

\* seen[outage_id] = outage for the first outage of an id; no date, no entry
RECURSIVE RemoveSeen(_, _)
RemoveSeen(list, seen) ==
    IF list = <<>> THEN <<>>
    ELSE LET o == Head(list)
         IN  IF o.date = <<>> \/ o.id = <<>> \/ o.id \in seen
             THEN RemoveSeen(Tail(list), seen)
             ELSE <<o>> \o RemoveSeen(Tail(list), seen \cup {o.id})

remove_duplicates(list) == RemoveSeen(list, {})

\* the loop left by the exception, or "return result"
Returned(processed, now) ==
    IF processed.raised THEN OverflowError
    ELSE <<"result", categorize_outages(<<remove_duplicates(processed.list)>>, now)>>

\* nothing in fetch_and_parse_outages catches what parse_french_date lets
\* escape
ProcessDistrict ==
    /\ returned = <<>>
    /\ raw_outages # <<>>
    /\ returned' = Returned(ProcessedOutages(raw_outages), now_local)
    /\ UNCHANGED <<storage, sched, commands, local, hist, detect, fingerprint, units,
                   at, existing, html, raw_outages,
                   session>>

InitRaw ==
    /\ InitPipeline
    /\ history = FALSE
    /\ InitDetect
    /\ InitFingerprint
    /\ row = NoDict
    /\ InitDates
    /\ date_str = <<>>
    /\ InitCategorize
    /\ now_local = <<Today, 36000, 0>>
    /\ outages_by_district = <<>>
    /\ InitBatch
    /\ batch_faults = <<>>
    /\ at = [j \in Jobs |-> 0]
    /\ existing = [j \in Jobs |-> FALSE]
    /\ html = <<>>
    /\ raw_outages \in SeqsUpTo(RawOutages, MaxRaw) \ {<<>>}
    /\ returned = <<>>
    /\ InitSession

NextDistrict == ProcessDistrict

SpecDistrict == InitRaw /\ [][NextDistrict]_vars

(***************************************************************************)
(* remove_duplicates called on its own (bot/ceb_parser.py), on a list of   *)
(* dicts, then on the list it returned.  A dict has an id and a date, each *)
(* of them absent, None or "" (<<>> here, outage.get(...) is falsy for all *)
(* three) or a str, and streets that tell two dicts of one id apart.       *)
(***************************************************************************)
MaxList == 3          \* dicts in the list

Dicts ==
    [id : {<<>>, <<"i1">>, <<"i2">>}, date : {<<>>, <<"d">>}, streets : {<<"s1">>, <<"s2">>}]

\* unique = remove_duplicates(outages)
RemoveDuplicates ==
    /\ returned = <<>>
    /\ returned' = <<"remove_duplicates", remove_duplicates(raw_outages)>>
    /\ UNCHANGED <<storage, sched, commands, local, hist, detect, fingerprint, units,
                   at, existing, html, raw_outages,
                   session>>

\* remove_duplicates(unique)
RemoveDuplicatesAgain ==
    /\ Len(returned) = 2
    /\ returned[1] = "remove_duplicates"
    /\ returned' = returned \o <<remove_duplicates(returned[2])>>
    /\ UNCHANGED <<storage, sched, commands, local, hist, detect, fingerprint, units,
                   at, existing, html, raw_outages,
                   session>>

InitList ==
    /\ InitPipeline
    /\ history = FALSE
    /\ InitDetect
    /\ InitFingerprint
    /\ row = NoDict
    /\ InitUnits
    /\ at = [j \in Jobs |-> 0]
    /\ existing = [j \in Jobs |-> FALSE]
    /\ html = <<>>
    /\ raw_outages \in SeqsUpTo(Dicts, MaxList)
    /\ returned = <<>>
    /\ InitSession

NextDuplicates ==
    \/ RemoveDuplicates
    \/ RemoveDuplicatesAgain

SpecDuplicates == InitList /\ [][NextDuplicates]_vars

(***************************************************************************)
(* add_subscription, remove_subscription and remove_all_subscriptions      *)
(* (bot/database.py) called one after the other on the subscriptions       *)
(* table, each for a user that has a users row and a locality that has a   *)
(* localities row (the foreign keys of Subscription).  db.commit() may     *)
(* raise (fault): the transaction is then not applied.                     *)
(***************************************************************************)
MaxCalls == 4         \* calls of the three functions

\* a query that never finds the row
SubscribedNever(rows, u, l) == FALSE

\* db.query(Subscription).filter(user_id == ..., locality_id == ...).first()
\* is not None
Subscribed(rows, u, l) == rows[<<u, l>>] > 0

\* uq_user_locality: the INSERT of a second row for the pair is refused
UniqueViolated(rows, u, l) == rows[<<u, l>>] > 0

\* the return value ("raised": the call raised) and the table after the call
add_subscription(rows, u, l, fault) ==
    IF Subscribed(rows, u, l) THEN [value |-> "False", rows |-> rows]
    ELSE IF fault \/ UniqueViolated(rows, u, l) THEN [value |-> "raised", rows |-> rows]
    ELSE [value |-> "True", rows |-> [rows EXCEPT ![<<u, l>>] = @ + 1]]

\* db.delete(subscription) deletes the row that first() returned
remove_subscription(rows, u, l, fault) ==
    IF ~Subscribed(rows, u, l) THEN [value |-> "False", rows |-> rows]
    ELSE IF fault THEN [value |-> "raised", rows |-> rows]
    ELSE [value |-> "True", rows |-> [rows EXCEPT ![<<u, l>>] = @ - 1]]

\* the rows of user u
RECURSIVE CountRows(_, _, _)
CountRows(rows, u, ls) ==
    IF ls = {} THEN 0
    ELSE LET l == CHOOSE x \in ls : TRUE
         IN  rows[<<u, l>>] + CountRows(rows, u, ls \ {l})

\* count = query.filter(user_id == telegram_id).delete(); db.commit()
remove_all_subscriptions(rows, u, fault) ==
    IF fault THEN [value |-> "raised", count |-> 0, rows |-> rows]
    ELSE [value |-> "count", count |-> CountRows(rows, u, LocalityIds),
          rows  |-> [p \in Users \X LocalityIds |-> IF p[1] = u THEN 0 ELSE rows[p]]]

\* the pairs that have a row
PairsOf(rows) == {p \in Users \X LocalityIds : rows[p] > 0}

\* one call of function name has returned (or raised) res
Called(name, u, l, res, count) ==
    /\ commands < MaxCalls
    /\ commands' = commands + 1
    /\ subscription_rows' = res.rows
    /\ subscriptions' = PairsOf(res.rows)
    /\ called' = [name |-> name, user |-> u, locality |-> l, value |-> res.value,
                  count |-> count]
    /\ UNCHANGED <<outages, notifications_sent, users, is_active, sched, local, hist,
                   detect, fingerprint, units, at, existing, html, raw_outages, returned,
                   user_subscription_state>>

CallAddSubscription ==
    \E u \in users : \E l \in LocalityIds : \E fault \in BOOLEAN :
        Called("add_subscription", u, l, add_subscription(subscription_rows, u, l, fault), 0)

CallRemoveSubscription ==
    \E u \in users : \E l \in LocalityIds : \E fault \in BOOLEAN :
        Called("remove_subscription", u, l,
               remove_subscription(subscription_rows, u, l, fault), 0)

CallRemoveAllSubscriptions ==
    \E u \in users : \E fault \in BOOLEAN :
        LET res == remove_all_subscriptions(subscription_rows, u, fault)
        IN  Called("remove_all_subscriptions", u, 0, res, res.count)

\* every user has a users row
InitUsers ==
    /\ outages = [o \in OutageIds |-> NoRow]
    /\ notifications_sent = {}
    /\ users = Users
    /\ subscriptions = {}
    /\ is_active = [u \in Users |-> TRUE]
    /\ jobstore = Jobs
    /\ runs = 0
    /\ commands = 0
    /\ pc = [j \in Jobs |-> "idle"]
    /\ new_outage_ids = [j \in Jobs |-> <<>>]
    /\ outage = [j \in Jobs |-> NoId]
    /\ users_with_lang = [j \in Jobs |-> <<>>]
    /\ user_id = [j \in Jobs |-> NoUser]
    /\ delivered = [p \in Pairs |-> 0]
    /\ failed = {}
    /\ owed = [j \in Jobs |-> {}]
    /\ escaped = FALSE
    /\ attempted = [j \in Jobs |-> {}]
    /\ no_data = NoJob
    /\ resting = Rested
    /\ undispatched = {}

InitCalls ==
    /\ InitUsers
    /\ history = FALSE
    /\ InitDetect
    /\ InitFingerprint
    /\ row = NoDict
    /\ InitUnits
    /\ InitApart

NextCalls ==
    \/ CallAddSubscription
    \/ CallRemoveSubscription
    \/ CallRemoveAllSubscriptions

SpecCalls == InitCalls /\ [][NextCalls]_vars

(***************************************************************************)
(* The subscription dialogue (bot/handlers.py): /subscribe, the buttons of *)
(* the keyboards it shows, /unsubscribe's confirmation and /start, for any *)
(* user in any order.  user_subscription_state is the module's dict        *)
(* {user_id: set of locality ids}.  None of the steps below awaits between *)
(* its first and its last statement, so each is one step.  A db.commit()   *)
(* may raise; the handlers catch nothing ("try ... finally: db.close()").  *)
(***************************************************************************)
\* user_subscription_state[user_id] = value
SetItem(state, u, value) ==
    [k \in DOMAIN state \cup {u} |-> IF k = u THEN value ELSE state[k]]

\* del user_subscription_state[user_id]
DelItem(state, u) == [k \in DOMAIN state \ {u} |-> state[k]]

\* "if user_id not in user_subscription_state: ... = set()"
Initialized(state, u) == IF u \in DOMAIN state THEN state ELSE SetItem(state, u, {})

\* the step of handler name for user u; what it leaves alone
Handled(name, u, l, value) ==
    /\ called' = [name |-> name, user |-> u, locality |-> l, value |-> value, count |-> 0]
    /\ subscriptions' = PairsOf(subscription_rows')
    /\ UNCHANGED <<outages, notifications_sent, sched, commands, local, hist,
                   detect, fingerprint, units, at, existing, html, raw_outages, returned>>

\* /start: get_or_create_user
StartCommand(u) ==
    \E fault \in BOOLEAN :
        /\ users' = IF fault THEN users ELSE users \cup {u}
        /\ is_active' = IF fault THEN is_active ELSE GetOrCreateUser(u, users, is_active)
        /\ UNCHANGED <<subscription_rows, user_subscription_state>>
        /\ Handled("start", u, 0, IF fault THEN "raised" ELSE "done")

\* /subscribe, and the "menu_subscribe" button
SubscribeCommand(u) ==
    /\ user_subscription_state' = SetItem(user_subscription_state, u, {})
    /\ UNCHANGED <<users, is_active, subscription_rows>>
    /\ Handled("subscribe", u, 0, "done")

\* "district_..." and "page_..." buttons: show_localities
ShowLocalities(u) ==
    /\ user_subscription_state' = Initialized(user_subscription_state, u)
    /\ UNCHANGED <<users, is_active, subscription_rows>>
    /\ Handled("show_localities", u, 0, "done")

\* "locality_..." button: the locality is toggled in the user's selection
ToggleLocality(u, l) ==
    /\ LET state == Initialized(user_subscription_state, u)
       IN  user_subscription_state' =
               SetItem(state, u, IF l \in state[u] THEN state[u] \ {l}
                                 ELSE state[u] \cup {l})
    /\ UNCHANGED <<users, is_active, subscription_rows>>
    /\ Handled("locality", u, l, "done")

\* "cancel" button
Cancel(u) ==
    /\ user_subscription_state' = DelItem(user_subscription_state, u)
    /\ UNCHANGED <<users, is_active, subscription_rows>>
    /\ Handled("cancel", u, 0, "done")

\* "for locality_id in user_subscription_state[user_id]: add_subscription",
\* from the i-th locality on; the commit of the bad-th one raises
RECURSIVE AddSelected(_, _, _, _, _)
AddSelected(rows, u, order, i, bad) ==
    IF i > Len(order) THEN [value |-> "done", rows |-> rows]
    ELSE IF add_subscription(rows, u, order[i], i = bad).value = "raised"
         THEN [value |-> "raised", rows |-> rows]
         ELSE AddSelected(add_subscription(rows, u, order[i], i = bad).rows,
                          u, order, i + 1, bad)

\* "confirm_subscriptions" button
ConfirmSelection(u) ==
    IF u \notin DOMAIN user_subscription_state \/ user_subscription_state[u] = {}
    THEN /\ UNCHANGED <<users, is_active, subscription_rows, user_subscription_state>>
         /\ Handled("confirm_subscriptions", u, 0, "no_localities_selected")
    ELSE \/ \* get_or_create_user raises
            /\ UNCHANGED <<users, is_active, subscription_rows, user_subscription_state>>
            /\ Handled("confirm_subscriptions", u, 0, "raised")
         \/ \E order \in Orderings(user_subscription_state[u]) :
            \E bad \in 0..Len(order) :
               LET res == AddSelected(subscription_rows, u, order, 1, bad)
               IN  /\ users' = users \cup {u}
                   /\ is_active' = GetOrCreateUser(u, users, is_active)
                   /\ subscription_rows' = res.rows
                   /\ user_subscription_state' =
                         IF res.value = "raised" THEN user_subscription_state
                         ELSE DelItem(user_subscription_state, u)
                   /\ Handled("confirm_subscriptions", u, 0, res.value)

\* "confirm_unsubscribe" button
ConfirmRemoveAll(u) ==
    \E fault \in BOOLEAN :
        LET res == remove_all_subscriptions(subscription_rows, u, fault)
        IN  /\ subscription_rows' = res.rows
            /\ UNCHANGED <<users, is_active, user_subscription_state>>
            /\ Handled("confirm_unsubscribe", u, 0, res.value)

NextSession ==
    \E u \in Users :
        \/ StartCommand(u)
        \/ SubscribeCommand(u)
        \/ ShowLocalities(u)
        \/ \E l \in LocalityIds : ToggleLocality(u, l)
        \/ Cancel(u)
        \/ ConfirmSelection(u)
        \/ ConfirmRemoveAll(u)

SpecSession == Init /\ [][NextSession]_vars

(***************************************************************************)
(* The program some time after its start: a user has subscribed, another   *)
(* has never talked to the bot.  /start is handled too.                    *)
(***************************************************************************)
\* start_command: get_or_create_user, get_user_language, the welcome text;
\* called.value is the flag of the row get_or_create_user returned
Start ==
    /\ commands < MaxCommands
    /\ commands' = commands + 1
    /\ no_data' = NoJob
    /\ \E u \in Users :
          /\ users' = users \cup {u}
          /\ is_active' = GetOrCreateUser(u, users, is_active)
          /\ called' = [name |-> "start", user |-> u, locality |-> 0, count |-> 0,
                        value |-> IF is_active'[u] THEN "active" ELSE "inactive"]
    /\ UNCHANGED <<outages, notifications_sent, subscriptions, sched, local,
                   delivered, history, failed, owed, escaped, attempted, resting,
                   undispatched,
                   detect, fingerprint, units, at, existing, html, raw_outages, returned,
                   subscription_rows, user_subscription_state>>

InitSubscribed ==
    /\ outages = [o \in OutageIds |-> NoRow]
    /\ notifications_sent = {}
    /\ users = {"u1"}
    /\ subscriptions = {<<"u1", 1>>}
    /\ is_active = [u \in Users |-> TRUE]
    /\ jobstore = Jobs
    /\ runs = 0
    /\ commands = 0
    /\ pc = [j \in Jobs |-> "idle"]
    /\ new_outage_ids = [j \in Jobs |-> <<>>]
    /\ outage = [j \in Jobs |-> NoId]
    /\ users_with_lang = [j \in Jobs |-> <<>>]
    /\ user_id = [j \in Jobs |-> NoUser]
    /\ delivered = [p \in Pairs |-> 0]
    /\ failed = {}
    /\ owed = [j \in Jobs |-> {}]
    /\ escaped = FALSE
    /\ attempted = [j \in Jobs |-> {}]
    /\ no_data = NoJob
    /\ resting = Rested
    /\ undispatched = {}
    /\ history = FALSE
    /\ InitDetect
    /\ InitFingerprint
    /\ row = NoDict
    /\ InitUnits
    /\ InitApart

NextCommands ==
    \/ Next
    \/ Start

SpecCommands == InitSubscribed /\ [][NextCommands]_vars

(***************************************************************************)
(* The scheduled program with the history kept: the scheduler fires the    *)
(* jobs that are due and every await of a run returns or raises.           *)
(***************************************************************************)
SpecDispatch == InitHistory /\ [][NextScheduled]_vars /\ Fairness

TypeOK ==
    /\ \A o \in OutageIds : outages[o] = NoRow \/ outages[o].id = o
    /\ notifications_sent \subseteq Pairs
    /\ users \subseteq Users
    /\ is_active \in [Users -> BOOLEAN]
    /\ subscriptions \subseteq Users \X LocalityIds
    /\ jobstore \subseteq Jobs
    /\ runs \in 0..MaxRuns
    /\ commands \in 0..MaxCommands
    /\ pc \in [Jobs -> {"idle", "fetch", "send", "sleep"}]
    /\ \A j \in Jobs : pc[j] = "send" <=> user_id[j] # NoUser
    /\ escaped \in BOOLEAN

(***************************************************************************)
(* Vocabulary of the properties.                                           *)
(***************************************************************************)
\* This step starts a delivery to p[1] for p[2] in slot j: bot.send_message
\* is called.
AttemptStep(j, p) ==
    /\ pc[j] # "send"
    /\ pc'[j] = "send"
    /\ user_id'[j] = p[1]
    /\ outage'[j] = p[2]

\* The users the recipients query returns for a stored outage.
Recipients(o) ==
    {s[1] : s \in MatchingSubscriptions(outages[o].locality, subscriptions, is_active)}

\* Every recipient of every stored outage has its notification record.
AllRecorded ==
    \A o \in OutageIds :
        outages[o] # NoRow => \A u \in Recipients(o) : <<u, o>> \in notifications_sent

\* The deliveries a dispatch invocation over ids would start first in the
\* current state.
FirstDeliveries(ids) ==
    {<<out.target, out.cur>> :
        out \in {x \in Advance(ids, NoId, <<>>, outages, notifications_sent,
                               subscriptions, is_active) : x.kind = "send"}}

\* The lists _process_outages can return: an id is appended when it is not
\* stored, and is stored by then, so no id comes twice.
DispatchLists ==
    {ids \in SeqsUpTo(OutageIds, Cardinality(OutageIds)) :
        \A i, k \in 1..Len(ids) : ids[i] = ids[k] => i = k}

(***************************************************************************)
(* C1.  Once a NotificationSent record for (subscriber, outage) exists, no *)
(* step of a run starts a delivery to that subscriber for that outage, and *)
(* neither would a dispatch invocation made now over any outage ids; made  *)
(* when every recipient of every stored outage has its record, such an     *)
(* invocation starts no delivery at all, so it ends with storage as it     *)
(* found it.                                                               *)
(***************************************************************************)
C1_NoAttemptOnceRecorded ==
    /\ [][ \A j \in Jobs : \A p \in notifications_sent : ~AttemptStep(j, p) ]_vars
    /\ [](\A ids \in DispatchLists :
            LET first == FirstDeliveries(ids)
            IN  /\ first \cap notifications_sent = {}
                /\ AllRecorded => first = {})

\* All deliveries of a run succeeded: a stored outage with recipients, each
\* with its record, and no run in progress.
C1_Witness ==
    /\ \A j \in Jobs : pc[j] = "idle"
    /\ AllRecorded
    /\ \E o \in OutageIds : outages[o] # NoRow /\ Recipients(o) # {}

(***************************************************************************)
(* C2.  Every stored notification record is preceded by a successful       *)
(* delivery to the same subscriber for the same outage: a pair with no     *)
(* successful delivery has no record.                                      *)
(***************************************************************************)
C2_RecordOnlyAfterSuccess ==
    \A p \in Pairs : p \in notifications_sent => delivered[p] >= 1

\* A subscriber has the record of one outage after a successful delivery;
\* the delivery for another outage has been attempted and has failed, and
\* left none.
C2_Witness ==
    \E u \in Users : \E o, o2 \in OutageIds :
        /\ <<u, o>> \in notifications_sent
        /\ delivered[<<u, o>>] = 1
        /\ <<u, o2>> \notin notifications_sent
        /\ delivered[<<u, o2>>] = 0
        /\ outages[o2] # NoRow
        /\ u \in Recipients(o2)
        /\ \E j \in Jobs : pc[j] = "sleep" /\ outage[j] = o2 /\ users_with_lang[j] = <<>>

(***************************************************************************)
(* C3.  At every delivery attempt the target user's is_active flag is      *)
(* true.                                                                   *)
(***************************************************************************)
C3_TargetIsActive ==
    [][ \A j \in Jobs : \A p \in Pairs : AttemptStep(j, p) => is_active[p[1]] ]_vars

(***************************************************************************)
(* C4.  After a delivery to a subscriber has failed permanently and the    *)
(* subscriber has been marked inactive, no delivery to that subscriber is  *)
(* started again and the subscriber receives no further notification, for  *)
(* any outage.                                                             *)
(***************************************************************************)
C4_NothingAfterPermanentFailure ==
    [][ \A u \in Users : ~is_active[u] =>
            \A o \in OutageIds :
                /\ \A j \in Jobs : ~AttemptStep(j, <<u, o>>)
                /\ delivered'[<<u, o>>] = delivered[<<u, o>>] ]_vars

(***************************************************************************)
(* C5.  A run that starts after a delivery to a subscriber for an outage   *)
(* failed transiently, and that sees the outage in the feed again, does    *)
(* not end without having started a delivery to that subscriber for that   *)
(* outage, if the subscriber is still active, still subscribed to the      *)
(* outage's locality and has no notification record for it.                *)
(***************************************************************************)
Eligible(p) ==
    /\ outages[p[2]] # NoRow
    /\ p[1] \in Recipients(p[2])
    /\ p \notin notifications_sent

C5_RetriedByNextRun ==
    [][ \A j \in Jobs :
            (pc[j] # "idle" /\ pc'[j] = "idle") =>
                \A p \in owed'[j] : ~Eligible(p)' ]_vars

C7_KnownOutageOnlyTouched ==
    [][ /\ \A o \in OutageIds :
              outages[o] # NoRow =>
                  /\ outages'[o] = [outages[o] EXCEPT !.last_checked = outages'[o].last_checked]
                  /\ o \notin IdsOf(last_data') => outages'[o] = outages[o]
        /\ notifications_sent' = notifications_sent ]_vars

\* o1 was stored as first published; the latest step saw it with every
\* other field edited: only its last_checked moved.
C7_Witness ==
    /\ last_data = [today |-> <<FeedRecord("o1", "v2")>>, future |-> <<>>]
    /\ last_clean
    /\ outages["o1"] # NoRow
    /\ outages["o1"] = [NewOutage(FeedRecord("o1", "v1"), outages["o1"].first_seen)
                           EXCEPT !.last_checked = clock - 1]
    /\ outages["o1"].first_seen < outages["o1"].last_checked

(***************************************************************************)
(* C8.  At most one pipeline run is in progress at any time.               *)
(***************************************************************************)
C8_RunsNeverOverlap == Cardinality({j \in Jobs : pc[j] # "idle"}) <= 1

(***************************************************************************)
(* C9.  No exception raised during a run propagates out of monitor_job,    *)
(* and the interval job stays registered with the scheduler.               *)
(***************************************************************************)
C9_NoErrorIsFatal == ~escaped /\ "outage_monitor" \in jobstore

\* The initial run delivered a notification and then met a storage error
\* that ended it; the interval job has started the next run.
C9_Witness ==
    /\ \E p \in Pairs : delivered[p] >= 1 /\ p \notin notifications_sent
    /\ pc["initial_check"] = "idle"
    /\ "initial_check" \notin jobstore
    /\ pc["outage_monitor"] = "fetch"

(***************************************************************************)
(* C10.  generate_outage_id returns 32 hexadecimal characters, and two     *)
(* dicts get the same id exactly when they agree on date, locality,        *)
(* streets and district, whatever the order of their keys and whatever     *)
(* id, from and to they carry.                                             *)
(***************************************************************************)
FourFields(dict) ==
    [k \in {"date", "locality", "streets", "district"} |-> Get(dict, k)]

IsHex32(id) ==
    /\ Len(id) = 32
    /\ \A i \in 1..32 : \E k \in DOMAIN HexDigits : id[i] = HexDigits[k]

C10_FingerprintOfFourFields ==
    /\ row_id # NotComputed => IsHex32(row_id)
    /\ (row_id # NotComputed /\ id_before # NotComputed) =>
           (row_id = id_before <=> FourFields(row) = FourFields(row_before))

\* The same four fields, first as parse_table_html builds them, then with
\* id, from and to around them: both times the id is
\* md5('{"date":"a","locality":"a","streets":"a","district":"a"}').
C10_Witness ==
    /\ row_before = ParsedRow(<<"a">>, <<"a">>, <<"a">>, <<"a">>)
    /\ row = WithTimes(row_before, <<"b">>, <<"b">>)
    /\ row_id = id_before
    /\ row_id = <<"6", "d", "a", "4", "d", "f", "f", "a", "9", "4", "c", "4", "d", "5", "9", "b",
                 "6", "a", "d", "e", "3", "5", "2", "c", "8", "7", "f", "7", "f", "a", "f", "b">>

(***************************************************************************)
(* Vocabulary of the properties of parse_french_date: what a string states.*)
(***************************************************************************)
\* The string follows the grammar, names a month and states a date and
\* times that exist.
WellFormed(words) ==
    /\ Matches(words)
    /\ MonthOf(lower(words[4])) # 0
    /\ \A w \in {words[7], SubSeq(words[9], 1, 8)} :
          ValidDateTime(int(words[5]), MonthOf(lower(words[4])), int(words[3]),
                        int(TimeParts(w)[1]), int(TimeParts(w)[2]), int(TimeParts(w)[3]))

\* The local time a string states with its time word w.
Stated(words, w) ==
    DateTime(int(words[5]), MonthOf(lower(words[4])), int(words[3]),
             int(TimeParts(w)[1]), int(TimeParts(w)[2]), int(TimeParts(w)[3]))
StatedStart(words) == Stated(words, words[7])
StatedEnd(words) ==
    LET end == Stated(words, SubSeq(words[9], 1, 8))
    IN  IF Before(end, StatedStart(words)) THEN <<end[1] + 1, end[2], end[3]>> ELSE end

\* "Le dimanche 13 mars 2022 de 09:30:00 a` 13:00:00"
ExampleDate ==
    DateString(<<"1", "3">>, <<"m", "a", "r", "s">>, <<"2", "0", "2", "2">>,
               TimeWord(9, 30, 0), TimeWord(13, 0, 0))

(***************************************************************************)
(* C11.  For every well-formed date string, parse_french_date returns the  *)
(* stated local start and end (the end on the next day when it is earlier  *)
(* than the start) minus four hours.                                       *)
(***************************************************************************)
C11_LocalMinusFourHours ==
    (parsed # NotParsed /\ WellFormed(date_str)) =>
        parsed = <<Plus(StatedStart(date_str), 0 - 14400),
                   Plus(StatedEnd(date_str), 0 - 14400)>>

\* The example of the specification: 2022-03-13T05:30:00Z and T09:00:00Z.
C11_Example ==
    (parsed # NotParsed /\ date_str = ExampleDate) =>
        parsed = <<(<<Ordinal(2022, 3, 13), 5 * 3600 + 30 * 60, 0>>),
                   (<<Ordinal(2022, 3, 13), 9 * 3600, 0>>)>>

(***************************************************************************)
(* C12.  Every pair parse_french_date returns has start <= end and         *)
(* end - start < 24 hours.                                                 *)
(***************************************************************************)
C12_EndWithinADay ==
    (parsed # NotParsed /\ parsed # <<None, None>>) =>
        /\ ~Before(parsed[2], parsed[1])
        /\ Before(parsed[2], <<parsed[1][1] + 1, parsed[1][2], parsed[1][3]>>)

(***************************************************************************)
(* Vocabulary of the properties of categorize_outages.                     *)
(***************************************************************************)
Range(list) == {list[i] : i \in 1..Len(list)}

\* The local calendar day of a start, local time being UTC plus four hours.
LocalDay(from) == Plus(FromTimeUtc(from), 14400)[1]

(***************************************************************************)
(* C13.  categorize_outages puts an outage with a start into "today" if    *)
(* the start falls, in local time, on the day of the call or before, into  *)
(* "future" otherwise, never into both, and an outage without a start into *)
(* neither.                                                                *)
(***************************************************************************)
C13_TodayOrFuture ==
    categorized # NotCategorized =>
        LET all == Flatten(outages_by_district)
        IN  /\ \A i \in 1..Len(all) :
                  LET o == all[i]
                      inToday  == o \in Range(categorized.today)
                      inFuture == o \in Range(categorized.future)
                  IN  IF NoFrom(o) THEN ~inToday /\ ~inFuture
                      ELSE /\ inToday <=> LocalDay(o.from) <= now_local[1]
                           /\ inFuture <=> LocalDay(o.from) > now_local[1]
            /\ Len(categorized.today) + Len(categorized.future)
                  = Cardinality({i \in 1..Len(all) : ~NoFrom(all[i])})

\* A call late in the day on an outage starting at 23:59:59.999 local and
\* one starting a second later: the first is "today", the second "future".
C13_Witness ==
    /\ categorized # NotCategorized
    /\ now_local = <<Today, 86399, 999500>>
    /\ categorized.today = <<[id |-> "o1", from |-> <<"str", <<Today, 71999, 999000>>, "+00:00">>]>>
    /\ categorized.future = <<[id |-> "o1", from |-> <<"str", <<Today, 72000, 999000>>, "+00:00">>]>>

(***************************************************************************)
(* Vocabulary of the properties of a dispatch in progress.                 *)
(***************************************************************************)
\* The deliveries _send_notifications would start next from the point
\* reached (ids, cur, lst) on the given tables.
NextDeliveries(ids, cur, lst, outs, sent, subs, act) ==
    {<<x.target, x.cur>> :
        x \in {y \in Advance(ids, cur, lst, outs, sent, subs, act) : y.kind = "send"}}

\* The same for the point slot j has reached before a step, on the tables
\* the step leaves.
Remaining(j) ==
    NextDeliveries(new_outage_ids[j], outage[j], users_with_lang[j],
                   outages', notifications_sent', subscriptions', is_active')

\* bot.send_message of slot j has failed in this step.
DeliveryFailed(j) ==
    /\ pc[j] = "send"
    /\ pc'[j] # "send"
    /\ delivered' = delivered

(***************************************************************************)
(* C14.  A failed delivery leaves its run going while the run has          *)
(* deliveries to start: after the failure the run sleeps and goes on with  *)
(* the recipients and outages that remain.                                 *)
(***************************************************************************)
C14_FailureLeavesRunGoing ==
    [][ \A j \in Jobs :
          (DeliveryFailed(j) /\ Remaining(j) # {}) =>
              /\ pc'[j] = "sleep"
              /\ new_outage_ids'[j] = new_outage_ids[j]
              /\ users_with_lang'[j] = users_with_lang[j] ]_vars

(***************************************************************************)
(* C16.  No step of the pipeline or of a command handler removes a stored  *)
(* outage.                                                                 *)
(***************************************************************************)
C16_OutagesOnlyGrow ==
    [][ \A o \in OutageIds : outages[o] # NoRow => outages'[o] # NoRow ]_vars

\* An outage is stored, a second run has seen the feed again and a command
\* has been handled.
C16_Witness ==
    /\ \E o \in OutageIds : outages[o] # NoRow
    /\ runs = MaxRuns
    /\ commands > 0
    /\ \A j \in Jobs : pc[j] = "idle"

(***************************************************************************)
(* C19.  A dispatch ends only when it has no delivery left to start: a     *)
(* storage failure on the way skips one operation and the dispatch goes on *)
(* with the recipients and outages that remain.                            *)
(***************************************************************************)
C19_DispatchEndsWithNothingLeft ==
    [][ \A j \in Jobs :
          (pc[j] \in {"send", "sleep"} /\ pc'[j] = "idle") => Remaining(j) = {} ]_vars

(***************************************************************************)
(* C20.  A transient delivery failure leaves the subscriber active and     *)
(* writes no NotificationSent record, and a run starts at most one         *)
(* delivery per (subscriber, outage).                                      *)
(***************************************************************************)
C20_OneAttemptPerRun ==
    [][ \A j \in Jobs :
          /\ (DeliveryFailed(j) /\ <<user_id[j], outage[j]>> \in failed') =>
                (is_active' = is_active /\ notifications_sent' = notifications_sent)
          /\ \A p \in Pairs : AttemptStep(j, p) => p \notin attempted[j] ]_vars

(***************************************************************************)
(* C17.  The ids _process_outages returns are those that had no row when   *)
(* the call started and have one when it returns, each once.               *)
(***************************************************************************)
C17_NewAreAbsentAndCommitted ==
    batch = "returned" =>
        /\ \A i, k \in 1..Len(last_new) : last_new[i] = last_new[k] => i = k
        /\ Range(last_new) =
              {o \in OutageIds : outages_before[o] = NoRow /\ outages[o] # NoRow}

\* The document lists o1 in "today" and in "future", o1 was unknown: it is
\* returned once.
C17_Witness ==
    /\ batch = "returned"
    /\ last_data = [today  |-> <<FeedRecord("o1", "v1")>>,
                    future |-> <<FeedRecord("o1", "v1")>>]
    /\ outages_before["o1"] = NoRow
    /\ last_new = <<"o1">>

(***************************************************************************)
(* C18.  _process_outages returns, and has classified every record whose   *)
(* own storage operations did not fail: its outage is stored and was       *)
(* created or touched by this call, whatever failed on the records before. *)
(***************************************************************************)
C18_LaterRecordsClassified ==
    batch \in {"returned", "raised"} =>
        /\ batch = "returned"
        /\ \A i \in 1..Len(AllOutages(last_data)) :
              LET rec == AllOutages(last_data)[i]
              IN  (rec.id # NoId /\ batch_faults[i] = "ok" /\ ~ConstructRaises(rec)) =>
                      /\ outages[rec.id] # NoRow
                      /\ outages[rec.id].last_checked = clock

\* The scheduler starts a run of job j.
Fires(j) == pc[j] = "idle" /\ pc'[j] = "fetch"

C28_StoredBeforeSent ==
    /\ [][ \A j \in Jobs : \A p \in Pairs :
              AttemptStep(j, p) => outages'[p[2]] # NoRow ]_vars
    /\ [](\A j \in Jobs : pc[j] = "send" => outages[outage[j]] # NoRow)

\* The run that found o2 new is delivering it while the other run, which
\* found o1 new, has a delivery for o1 in flight.
C28_Witness ==
    /\ pc["initial_check"] = "send" /\ outage["initial_check"] = "o1"
    /\ pc["outage_monitor"] = "send" /\ outage["outage_monitor"] = "o2"
    /\ outages["o1"] # NoRow /\ outages["o2"] # NoRow

(***************************************************************************)
(* C29.  No (subscriber, outage) pair gets more than one successful        *)
(* delivery, whether or not its notification record was ever written.      *)
(***************************************************************************)
C29_AtMostOneDelivery == \A p \in Pairs : delivered[p] <= 1

\* A delivery succeeded, the commit of its record failed and ended the run;
\* a later run has seen the feed and is over.
C29_Witness ==
    /\ \E p \in Pairs : delivered[p] = 1 /\ p \notin notifications_sent
    /\ runs = MaxRuns
    /\ \A j \in Jobs : pc[j] = "idle"

(***************************************************************************)
(* Vocabulary of the properties of one detection call.                     *)
(***************************************************************************)
HasId(rec) == rec.id # NoId

\* The document without its records that have no id, and the storage
\* faults of the call without those of the records left out.
WithoutMissing(data) ==
    [today |-> SelectSeq(data.today, HasId), future |-> SelectSeq(data.future, HasId)]

RECURSIVE FaultsKept(_, _)
FaultsKept(all, faults) ==
    IF all = <<>> THEN <<>>
    ELSE (IF HasId(Head(all)) THEN <<Head(faults)>> ELSE <<>>) \o
         FaultsKept(Tail(all), Tail(faults))

(***************************************************************************)
(* C23.  A record without id is never stored and never returned as new,    *)
(* and the call leaves the table and returns (or raises) exactly as it     *)
(* does on the document without that record.                               *)
(***************************************************************************)
C23_MissingIdDropped ==
    batch \in {"returned", "raised"} =>
        LET res == ProcessOutages(WithoutMissing(last_data),
                                  FaultsKept(AllOutages(last_data), batch_faults),
                                  outages_before, clock)
        IN  /\ outages = res.outages
            /\ (batch = "raised") = res.raised
            /\ batch = "returned" => last_new = res.new
            /\ NoId \notin Range(last_new)
            /\ \A o \in OutageIds : outages[o] # NoRow => outages[o].id = o

\* A record without id comes first, an unknown outage after it: the
\* outage is stored and returned.
C23_Witness ==
    /\ batch = "returned"
    /\ last_data = [today  |-> <<FeedRecord(NoId, "v1"), FeedRecord("o2", "v1")>>,
                    future |-> <<>>]
    /\ outages_before["o2"] = NoRow
    /\ outages["o2"] # NoRow
    /\ last_new = <<"o2">>

(***************************************************************************)
(* Vocabulary of C27: the documents that carry the records of a document   *)
(* in any order and with any split into "today" and "future", and the      *)
(* notification records a dispatch leaves when every delivery succeeds.    *)
(***************************************************************************)
Redistributions(data) ==
    LET all == AllOutages(data)
        n == Len(all)
    IN  {[today  |-> [i \in 1..k |-> all[q[i]]],
          future |-> [i \in 1..(n - k) |-> all[q[k + i]]]] :
            q \in Orderings(1..n), k \in 0..n}

RECURSIVE Finals(_, _, _, _, _, _, _)
Finals(ids, cur, lst, outs, sent, subs, act) ==
    LET sends == {x \in Advance(ids, cur, lst, outs, sent, subs, act) : x.kind = "send"}
    IN  IF sends = {} THEN {sent}
        ELSE UNION {Finals(x.ids, x.cur, x.lst, outs, sent \cup {<<x.target, x.cur>>},
                           subs, act) : x \in sends}

SubscriptionTables ==
    {{}, {<<"u1", 1>>}, {<<"u1", 1>>, <<"u2", 2>>}, {<<"u1", 1>>, <<"u1", 2>>}}

\* No id is carried by two different records.
Consistent(data) ==
    \A i, k \in 1..Len(AllOutages(data)) :
        AllOutages(data)[i].id = AllOutages(data)[k].id =>
            AllOutages(data)[i] = AllOutages(data)[k]

\* The call met no storage fault, and on every redistribution of its
\* document it stores the same outages and its dispatch notifies the same
\* pairs.
SameWhateverTheBucket ==
    \A d \in Redistributions(last_data) :
        LET res == ProcessOutages(d, [i \in 1..Len(AllOutages(d)) |-> "ok"],
                                  outages_before, clock)
        IN  /\ res.outages = outages
            /\ Range(res.new) = Range(last_new)
            /\ \A subs \in SubscriptionTables :
                  Finals(res.new, NoId, <<>>, res.outages, {}, subs, is_active)
                    = Finals(last_new, NoId, <<>>, outages, {}, subs, is_active)

C21_FetchFailureEndsRun ==
    [][ \A j \in Jobs :
          /\ no_data' = j =>
                /\ pc[j] = "fetch" /\ pc'[j] = "idle"
                /\ storage' = storage
                /\ delivered' = delivered
                /\ \A k \in Jobs : \A p \in Pairs : ~AttemptStep(k, p)
                /\ runs' = runs
          /\ (pc[j] # "fetch" /\ pc'[j] = "fetch") =>
                (pc[j] = "idle" /\ runs' = runs + 1 /\ j \in jobstore) ]_vars

\* The first run stored an outage and notified a subscriber; the fetch of
\* the next run has just failed.
C21_Witness ==
    /\ no_data = "outage_monitor"
    /\ pc["outage_monitor"] = "idle"
    /\ \E o \in OutageIds : outages[o] # NoRow
    /\ notifications_sent # {}

(***************************************************************************)
(* C22.  Between any two successive bot.send_message calls of the          *)
(* pipeline, whichever runs make them, an asyncio.sleep(0.05) begins and   *)
(* ends: a call is made only when such a sleep has ended since the call    *)
(* before it, or by the run that ends one with this step.                  *)
(***************************************************************************)
C22_DelayBetweenAttempts ==
    [][ \A j \in Jobs : \A p \in Pairs :
          AttemptStep(j, p) =>
              (resting = Rested \/ (pc[j] = "sleep" /\ j \in resting)) ]_vars

(***************************************************************************)
(* C30.  Of two detections that overlap on one document, at most one       *)
(* returns a given id as new, and only an id that had no row before and    *)
(* has one now; the one whose create meets the row of the other changes no *)
(* row, returns nothing for the record and goes on with the next record.   *)
(***************************************************************************)
C30_NewForOneRunOnly ==
    /\ [](\A o \in OutageIds :
            /\ Cardinality({<<j, i>> \in Jobs \X (1..MaxSnapshot) :
                               i <= Len(new_outage_ids[j]) /\ new_outage_ids[j][i] = o}) <= 1
            /\ (\E j \in Jobs : o \in Range(new_outage_ids[j])) =>
                   (outages_before[o] = NoRow /\ outages[o] # NoRow))
    /\ [][ \A j \in Jobs :
              (pc[j] = "commit" /\ pc'[j] = "query" /\ ~existing[j]
                 /\ outages[AllOutages(last_data)[at[j]].id] # NoRow) =>
                  /\ outages' = outages
                  /\ new_outage_ids' = new_outage_ids
                  /\ at'[j] = at[j] + 1 ]_vars

\* Both detections found o1 without a row; the first created it and
\* returned it, the second met the row at its commit and has gone on to
\* o2, which it has created.
C30_Witness ==
    /\ last_data = [today  |-> <<FeedRecord("o1", "v1"), FeedRecord("o2", "v1")>>,
                    future |-> <<>>]
    /\ outages_before["o1"] = NoRow
    /\ new_outage_ids["initial_check"] = <<"o1">>
    /\ new_outage_ids["outage_monitor"] = <<"o2">>
    /\ at["initial_check"] = 2 /\ pc["initial_check"] = "query"
    /\ pc["outage_monitor"] = "idle"

(***************************************************************************)
(* C26.  parse_table_html returns one record for each table row that has   *)
(* at least three cells and a date cell that is not empty, in document     *)
(* order, with date, locality and streets from the first three cells and   *)
(* the district from the argument; nothing for other rows, nor for tables  *)
(* whose id lacks the prefix.                                              *)
(***************************************************************************)
RECURSIVE TableRowsOf(_)
TableRowsOf(children) ==
    IF children = <<>> THEN <<>>
    ELSE (IF Head(children)[1] = "tbody" THEN Head(children)[2] ELSE <<Head(children)[2]>>)
         \o TableRowsOf(Tail(children))

RECURSIVE RecordPerRow(_, _)
RecordPerRow(tables, district) ==
    IF tables = <<>> THEN <<>>
    ELSE (IF Head(tables).prefixed
          THEN RowOutages(TableRowsOf(Head(tables).children), district)
          ELSE <<>>)
         \o RecordPerRow(Tail(tables), district)

\* C26 as stated: one record for each qualifying row of a prefixed table.
C26_RecordPerTableRow ==
    returned = <<"parse_table_html">> => raw_outages = RecordPerRow(html[2], html[1])

\* What does hold: the rows of the first tbody of each prefixed table.
C26_RecordPerRowOfFirstBody ==
    returned = <<"parse_table_html">> =>
        /\ \A i \in 1..Len(raw_outages) :
              /\ raw_outages[i].district = html[1]
              /\ raw_outages[i].date # ""
        /\ Len(raw_outages) <= Len(RecordPerRow(html[2], html[1]))
        /\ (\A i \in 1..Len(html[2]) : ~html[2][i].prefixed) => raw_outages = <<>>

\* A prefixed table whose rows are its own children: a row of three cells
\* with a date, and no record.
C26_RowWithoutTbody ==
    /\ returned = <<"parse_table_html">>
    /\ html[2] = <<[prefixed |-> TRUE, children |-> << <<"tr", <<"d1", "l1", "s1">>>> >>]>>
    /\ raw_outages = <<>>

(***************************************************************************)
(* C25.  fetch_and_parse_outages fails with the source-format error, which *)
(* is not the fetch error, exactly when the page has no arDistrictLocations*)
(* assignment or the value assigned is not valid JSON; it then produces no *)
(* records.                                                                *)
(***************************************************************************)
\* the brace that closes the one at position i, or 0
RECURSIVE Closing(_, _, _)
Closing(page, k, depth) ==
    IF k > Len(page) THEN 0
    ELSE IF page[k] = "{" THEN Closing(page, k + 1, depth + 1)
    ELSE IF page[k] = "}"
         THEN (IF depth = 1 THEN k ELSE Closing(page, k + 1, depth - 1))
    ELSE Closing(page, k + 1, depth)

\* the assignments of the page: "var", an object, ";"
Assignments(page) ==
    {i \in 1..(Len(page) - 1) :
        /\ page[i] = "var" /\ page[i + 1] = "{"
        /\ Closing(page, i + 1, 0) # 0
        /\ Closing(page, i + 1, 0) < Len(page)
        /\ page[Closing(page, i + 1, 0) + 1] = ";"}

Assigned(page) ==
    LET i == Min(Assignments(page)) IN SubSeq(page, i + 1, Closing(page, i + 1, 0))

AbsentOrInvalid(page) ==
    \/ Assignments(page) = {}
    \/ JsonLoads(Assigned(page)) = JSONDecodeError

\* C25 as stated: ValueError exactly for a page without the assignment or
\* with a value that is not JSON.
C25_FormatErrorIffAbsentOrInvalid ==
    /\ returned # <<"HTTPError">> /\ returned # <<>> =>
          (returned = <<"ValueError">> <=> AbsentOrInvalid(html))
    /\ returned = <<"ValueError">> => raw_outages = <<>>

\* What does hold: a page without the assignment, or with a value that is
\* not JSON, fails with ValueError and gives no records.
C25_AbsentOrInvalidFails ==
    (returned \notin {<<>>, <<"HTTPError">>} /\ AbsentOrInvalid(html)) =>
        (returned = <<"ValueError">> /\ raw_outages = <<>>)

\* The assignment on one line with a later "};" on the same line.
C25_LaterBraceOnTheLine ==
    /\ html = <<"var", "{", "kv", "}", ";", "}", ";">>
    /\ returned = <<"ValueError">>

(***************************************************************************)
(* C24.  In fetch_and_parse_outages a row whose date cannot be parsed is   *)
(* dropped and the run does not fail: the output holds exactly the rows    *)
(* whose dates parse, each under the id computed from its four raw fields, *)
(* and the rows before and after a bad row are not affected.               *)
(***************************************************************************)
DateParses(raw) ==
    parse_french_date(Split(Get(raw, "date"))) \notin {<<None, None>>, OverflowError}

Output(result) == result.today \o result.future

\* C24 as stated: the call returns, with the rows whose dates parse.
C24_BadRowDroppedRunGoesOn ==
    returned # <<>> =>
        /\ returned[1] = "result"
        /\ {o.id : o \in Range(Output(returned[2]))}
             = {generate_outage_id(raw_outages[i]) :
                  i \in {k \in 1..Len(raw_outages) : DateParses(raw_outages[k])}}

\* What does hold: a row for which parse_french_date returns (None, None)
\* is dropped and the rows around it are in the output.
C24_NoneRowDropped ==
    (returned # <<>> /\ returned # OverflowError) =>
        {o.date : o \in Range(Output(returned[2]))}
          = {Get(raw_outages[i], "date") :
               i \in {k \in 1..Len(raw_outages) : DateParses(raw_outages[k])}}

\* A row dated 31 December 9999 from 23:00 to 01:00, after a good row:
\* the call ends in OverflowError and returns nothing.
C24_OverflowEndsRun ==
    /\ Len(raw_outages) = 2
    /\ DateParses(raw_outages[1])
    /\ returned = OverflowError

(***************************************************************************)
(* C36.  remove_duplicates returns a list of pairwise distinct ids, keeps  *)
(* for each id the first record carrying it in input order, drops every    *)
(* record with an empty date or a missing id, and is idempotent.           *)
(***************************************************************************)
\* the places of the list whose dict has an id and a date
Dated(list) == {i \in 1..Len(list) : list[i].id # <<>> /\ list[i].date # <<>>}

\* the places whose dict carries an id that no earlier place of among has
FirstOfId(list, among) ==
    {i \in among : \A k \in among : k < i => list[k].id # list[i].id}

\* the dicts at the places of keep, in the order of the list
RECURSIVE Pick(_, _, _)
Pick(list, keep, i) ==
    IF i > Len(list) THEN <<>>
    ELSE (IF i \in keep THEN <<list[i]>> ELSE <<>>) \o Pick(list, keep, i + 1)

DistinctIds(list) ==
    \A i, k \in 1..Len(list) : i # k => list[i].id # list[k].id

RowsMore(before, after, u, l, n) ==
    after = [before EXCEPT ![<<u, l>>] = @ + n]

C35_AddRemoveAtMostOne ==
    [][LET u == called'.user
           l == called'.locality
       IN  /\ \A p \in Users \X LocalityIds : subscription_rows'[p] <= 1
           /\ called'.name = "add_subscription" =>
                 /\ called'.value \in {"True", "False", "raised"}
                 /\ called'.value = "True" =>
                       /\ subscription_rows[<<u, l>>] = 0
                       /\ RowsMore(subscription_rows, subscription_rows', u, l, 1)
                 /\ called'.value = "False" =>
                       /\ subscription_rows[<<u, l>>] > 0
                       /\ subscription_rows' = subscription_rows
                 /\ called'.value = "raised" =>
                       /\ subscription_rows[<<u, l>>] = 0
                       /\ subscription_rows' = subscription_rows
           /\ called'.name = "remove_subscription" =>
                 /\ called'.value \in {"True", "False", "raised"}
                 /\ called'.value = "True" <=>
                       RowsMore(subscription_rows, subscription_rows', u, l, 0 - 1)
                 /\ called'.value # "True" => subscription_rows' = subscription_rows
                 /\ called'.value = "False" <=> subscription_rows[<<u, l>>] = 0
           /\ called'.name = "remove_all_subscriptions" =>
                 \/ called'.value = "raised" /\ subscription_rows' = subscription_rows
                 \/ /\ called'.value = "count"
                    /\ called'.count = Cardinality({p \in PairsOf(subscription_rows) : p[1] = u})
                    /\ PairsOf(subscription_rows') =
                          {p \in PairsOf(subscription_rows) : p[1] # u}
      ]_vars

\* A second add_subscription of a pair has returned False and left its one
\* row; another pair has no row.
C35_SecondAddRefused ==
    /\ called.name = "add_subscription"
    /\ called.value = "False"
    /\ subscription_rows[<<called.user, called.locality>>] = 1
    /\ \E p \in Users \X LocalityIds : subscription_rows[p] = 0

(***************************************************************************)
(* C34.  After "confirm_subscriptions" with a non-empty pending selection  *)
(* the user's stored subscriptions are the previous ones united with the   *)
(* selection and the user's pending selection is removed; after "cancel",  *)
(* or "confirm_subscriptions" with an empty or missing selection, the      *)
(* stored subscriptions are unchanged; /subscribe starts from an empty     *)
(* selection; a user's step never changes another user's subscriptions.    *)
(***************************************************************************)
\* the localities user u has a subscription to
LocalitiesOf(rows, u) == {l \in LocalityIds : rows[<<u, l>>] > 0}

\* the user of the step has a pending selection that is not empty
Pending(u) == u \in DOMAIN user_subscription_state /\ user_subscription_state[u] # {}

\* what holds of every step but a confirmation with a pending selection
SessionStep(u) ==
    /\ \A v \in Users \ {u} :
          LocalitiesOf(subscription_rows', v) = LocalitiesOf(subscription_rows, v)
    /\ called'.name = "cancel" => subscription_rows' = subscription_rows
    /\ (called'.name = "confirm_subscriptions" /\ ~Pending(u)) =>
          subscription_rows' = subscription_rows
    /\ called'.name = "subscribe" => user_subscription_state'[u] = {}
    /\ called'.name \in {"locality", "show_localities", "subscribe"} =>
          /\ subscription_rows' = subscription_rows
          /\ \A v \in DOMAIN user_subscription_state \ {u} :
                /\ v \in DOMAIN user_subscription_state'
                /\ user_subscription_state'[v] = user_subscription_state[v]

\* the selection is stored and the pending selection is gone
Confirmed(u) ==
    /\ LocalitiesOf(subscription_rows', u) =
          LocalitiesOf(subscription_rows, u) \cup user_subscription_state[u]
    /\ u \notin DOMAIN user_subscription_state'

C34_SelectionStoredAndCleared ==
    [][/\ SessionStep(called'.user)
       /\ (called'.name = "confirm_subscriptions" /\ Pending(called'.user)) =>
             Confirmed(called'.user)
      ]_vars

\* The same for the confirmations that meet no storage fault.
C34_StoredUnlessCommitRaises ==
    [][/\ SessionStep(called'.user)
       /\ (called'.name = "confirm_subscriptions" /\ Pending(called'.user)
             /\ called'.value # "raised") =>
             Confirmed(called'.user)
      ]_vars

\* A confirmation raised at the commit of the second of two selected
\* localities: the first is stored, the second is not, and the selection
\* is still pending.
C34_HalfStoredStillPending ==
    /\ called.name = "confirm_subscriptions"
    /\ called.value = "raised"
    /\ Pending(called.user)
    /\ user_subscription_state[called.user] = LocalityIds
    /\ Cardinality(LocalitiesOf(subscription_rows, called.user)) = 1

(***************************************************************************)
(* C33.  Deactivation is one-way: once a user's is_active is false, no     *)
(* step of the pipeline and no command handler (/start, the subscribe      *)
(* confirmation, the unsubscribe confirmation) sets it back to true.       *)
(***************************************************************************)
C33_DeactivationOneWay ==
    [][\A u \in Users : ~is_active[u] => ~is_active'[u]]_vars

\* A deactivated user has sent /start since: get_or_create_user found the
\* row and left the flag.
C33_StartAfterDeactivation ==
    /\ called.name = "start"
    /\ called.value = "inactive"
    /\ called.user \in users
    /\ ~is_active[called.user]

(***************************************************************************)
(* C32.  A user is a delivery target for an outage only if the user holds  *)
(* a subscription to the locality that has the outage's locality name      *)
(* within the outage's district, and is resolved as a target at most once  *)
(* per outage.                                                             *)
(***************************************************************************)
\* user u holds a subscription to the locality of stored outage o
SubscribedInDistrict(u, o) ==
    \E l \in LocalityIds :
        /\ <<u, l>> \in subscriptions
        /\ Locality[l].name = outages'[o].locality
        /\ Locality[l].district = outages'[o].district

\* the recipients slot j holds after the step: the one the delivery in
\* flight goes to and those still to be visited
Targets(j) ==
    (IF pc'[j] = "send" THEN <<user_id'[j]>> ELSE <<>>) \o users_with_lang'[j]

\* the step in which slot j goes on to another outage and resolves its
\* recipients
ResolveStep(j) == outage'[j] # outage[j] /\ outage'[j] # NoId

C32_TargetsSubscribedInDistrictOnce ==
    [][\A j \in Jobs :
          ResolveStep(j) =>
              /\ \A i \in 1..Len(Targets(j)) : SubscribedInDistrict(Targets(j)[i], outage'[j])
              /\ \A i, k \in 1..Len(Targets(j)) : Targets(j)[i] = Targets(j)[k] => i = k
      ]_vars

\* A delivery is in flight to a user whose only subscription is to the
\* locality of that name in another district.
C32_TargetOfOtherDistrict ==
    \E j \in Jobs :
        /\ pc[j] = "send"
        /\ \E l \in LocalityIds :
              /\ {s \in subscriptions : s[1] = user_id[j]} = {<<user_id[j], l>>}
              /\ Locality[l].name = outages[outage[j]].locality
              /\ Locality[l].district # outages[outage[j]].district

\* A delivery is in flight to a user who is listed again among the
\* recipients still to be visited for the same outage.
C32_TargetListedTwice ==
    \E j \in Jobs :
        /\ pc[j] = "send"
        /\ \E i \in 1..Len(users_with_lang[j]) : users_with_lang[j][i] = user_id[j]

IdsIn(ids) == {ids[i] : i \in 1..Len(ids)}

\* no run has the outage of the pair in its dispatch, and no delivery to
\* the user for it was ever started
Stranded(p) ==
    /\ p \in undispatched
    /\ \A j \in Jobs : outage[j] # p[2] /\ p[2] \notin IdsIn(new_outage_ids[j])

\* What the code does instead: a pair that is stranded stays stranded in
\* every step, whatever the runs that follow.
C31_StrandedForGood ==
    [][\A p \in Pairs : Stranded(p) => Stranded(p)']_vars

\* The run that stored the outage has been aborted, the user is still
\* active and subscribed, and a run is still to come.
C31_StrandedBeforeNextRun ==
    \E p \in Pairs :
        /\ Stranded(p)
        /\ runs < MaxRuns
        /\ \A j \in Jobs : pc[j] = "idle"
        /\ p[1] \in Recipients(p[2])
        /\ p \notin notifications_sent

====
